---------------------------- MODULE Spec2Model ----------------------------
(***************************************************************************)
(* Model of the vocabulary review core: the SM-2 scheduler                 *)
(* (app/core/srs_engine.py), the review session service                    *)
(* (app/services/review_service.py), the question pre-generator            *)
(* (app/services/question_pregenerator_service.py) and the quiz question   *)
(* pool of VocabularyService.generate_quiz_session                         *)
(* (app/services/vocabulary_service.py).                                   *)
(*                                                                         *)
(* Units.  An easiness factor is kept in hundredths (2.5 is 250), an       *)
(* interval multiplier in tenths (1.3 is 13), a response time in           *)
(* thousandths of a second (5 s is 5000), a date in whole days.            *)
(* The engine computes in binary floating point: the easiness factor       *)
(* drifts by a few ulps around the exact hundredth, which changes the      *)
(* result of round() only when the exact product is a tie (x.5).  There    *)
(* the outcome is either neighbour, chosen by the parameter `drift`.       *)
(***************************************************************************)
EXTENDS Integers, Sequences, FiniteSets, TLC

VARIABLES
    now,        \* the clock read by datetime.utcnow(), in days
    cur,        \* scheduler: the SRSState object handed to update_after_review
    orig,       \* scheduler: the caller's copy of that object's fields before the call
    args,       \* scheduler: <<>> or <<the arguments of the last call>>
    new_state,  \* scheduler: <<>> or <<the SRSState the last call returned>>
    again,      \* scheduler: <<>> or <<the SRSState a repeated identical call returned>>
    ctor,       \* scheduler: the easiness factor last given to the SRSState constructor
    passes,     \* scheduler: passing reviews in a row since a state with
                \* repetitions = 0 and interval = 0 (-1: not known)
    vocab,      \* table vocabularies: id -> the row's SRS columns
    questions,  \* table generated_questions: creation number -> row
    nrows,      \* number of generated_questions rows created so far
    sessions,   \* table review_sessions: the sequence of rows, id = index
    applied,    \* per question row: update_after_review calls made for it
    quiz,       \* generate_quiz_session in flight: the vocabularies still to do
    response,   \* what the last create_session or generate_quiz_session call returned
    reqs        \* complete_session calls in flight: request -> what it has read

srsVars == <<cur, orig, args, new_state, again, ctor, passes>>
dbVars == <<vocab, questions, nrows, sessions, applied, quiz, response, reqs>>
vars == <<now, cur, orig, args, new_state, again, ctor, passes,
          vocab, questions, nrows, sessions, applied, quiz, response, reqs>>

---------------------------------------------------------------------------
(* Bounds of the model. *)
MaxClock == 1
MaxReps == 4
MaxInterval == 30

(* None for a date. *)
NoneT == -1

Times == 0..MaxClock

(* The review times a caller passes: none (the engine reads the clock) or *)
(* a date.                                                                *)
ReviewTimes == {NoneT, 0}

---------------------------------------------------------------------------
(* ReviewQuality, srs_engine.py 18-31. *)
AGAIN == 0
HARD == 1
GOOD == 2
EASY == 3
ReviewQuality == {AGAIN, HARD, GOOD, EASY}

(* SRSEngine constants, srs_engine.py 70-78. *)
MIN_EASINESS_FACTOR == 130
MAX_EASINESS_FACTOR == 250
DEFAULT_EASINESS_FACTOR == 250
HARD_MULTIPLIER == 5
GOOD_MULTIPLIER == 10
EASY_MULTIPLIER == 13

Max(a, b) == IF a >= b THEN a ELSE b
Min(a, b) == IF a <= b THEN a ELSE b

(* SRSState.__post_init__: the constructor clamps the easiness factor and  *)
(* reads the clock when no next review date is given.                      *)
SRSState(ef, iv, reps, next, last, clock) ==
    [easiness_factor  |-> IF ef < MIN_EASINESS_FACTOR THEN MIN_EASINESS_FACTOR
                          ELSE IF ef > MAX_EASINESS_FACTOR THEN MAX_EASINESS_FACTOR
                          ELSE ef,
     interval         |-> iv,
     repetitions      |-> reps,
     next_review_date |-> IF next = NoneT THEN clock ELSE next,
     last_review_date |-> last]

(* create_initial_state. *)
create_initial_state(date, clock) ==
    SRSState(DEFAULT_EASINESS_FACTOR, 0, 0, IF date = NoneT THEN clock ELSE date,
             NoneT, clock)

(* The speed adjustment of update_after_review. *)
AdjustedQuality_inclusive(review_quality, time_spent) ==
    IF review_quality >= GOOD /\ time_spent > 0
    THEN IF time_spent <= 5000
         THEN (IF review_quality = GOOD THEN EASY ELSE review_quality)
         ELSE IF time_spent >= 15000
              THEN (IF review_quality = EASY THEN GOOD
                    ELSE IF review_quality = GOOD THEN HARD
                    ELSE review_quality)
              ELSE review_quality
    ELSE review_quality
AdjustedQuality(review_quality, time_spent) ==
    IF review_quality >= GOOD /\ time_spent > 0
    THEN IF time_spent < 5000
         THEN (IF review_quality = GOOD THEN EASY ELSE review_quality)
         ELSE IF time_spent > 15000
              THEN (IF review_quality = EASY THEN GOOD
                    ELSE IF review_quality = GOOD THEN HARD
                    ELSE review_quality)
              ELSE review_quality
    ELSE review_quality

(* A plausible bug: the clamp is forgotten. *)
calculate_new_easiness_factor_noclamp(current_ef, quality) ==
    IF quality = AGAIN THEN current_ef - 20
    ELSE IF quality = HARD THEN current_ef - 15
    ELSE IF quality = GOOD THEN current_ef
    ELSE current_ef + 15

(* SRSEngine._calculate_new_easiness_factor. *)
calculate_new_easiness_factor(current_ef, quality) ==
    LET new_ef == IF quality = AGAIN THEN current_ef - 20
                  ELSE IF quality = HARD THEN current_ef - 15
                  ELSE IF quality = GOOD THEN current_ef
                  ELSE current_ef + 15
    IN  Min(MAX_EASINESS_FACTOR, Max(MIN_EASINESS_FACTOR, new_ef))

(* A plausible bug: HARD is not counted as a failed review. *)
new_repetitions_again_only(adjusted_quality, repetitions) ==
    IF adjusted_quality < HARD THEN 0 ELSE repetitions + 1

(* Step 2 of update_after_review. *)
new_repetitions(adjusted_quality, repetitions) ==
    IF adjusted_quality < GOOD THEN 0 ELSE repetitions + 1

(* The exact product interval * ef * multiplier, in thousandths. *)
Product(current_interval, easiness_factor, multiplier) ==
    current_interval * easiness_factor * multiplier

IsTie(n) == n % 1000 = 500

(* Python's round() of n / 1000 as the float computation yields it: to the *)
(* nearest integer, and at an exact tie to the even neighbour (drift 0),   *)
(* the lower one (drift -1) or the upper one (drift 1).                    *)
Round(n, drift) ==
    LET q == n \div 1000
        r == n % 1000
    IN  IF r < 500 THEN q
        ELSE IF r > 500 THEN q + 1
        ELSE IF drift < 0 THEN q
        ELSE IF drift > 0 THEN q + 1
        ELSE IF q % 2 = 0 THEN q ELSE q + 1

Multiplier(quality) ==
    IF quality = EASY THEN EASY_MULTIPLIER ELSE GOOD_MULTIPLIER

(* A plausible bug: the first two intervals are chosen by the repetitions  *)
(* before the update instead of after it.                                  *)
calculate_new_interval_offbyone(current_interval, repetitions, easiness_factor, quality, drift) ==
    IF quality = AGAIN THEN 0
    ELSE IF quality = HARD
         THEN (IF repetitions = 0 THEN 0
               ELSE Max(1, (current_interval * HARD_MULTIPLIER) \div 10))
    ELSE IF repetitions = 0 THEN 0
    ELSE IF repetitions = 2 THEN 1
    ELSE IF repetitions = 3 THEN 6
    ELSE Max(1, Round(Product(current_interval, easiness_factor, Multiplier(quality)), drift))

(* A plausible bug: AGAIN halves the interval as HARD does. *)
calculate_new_interval_again_halves(current_interval, repetitions, easiness_factor, quality, drift) ==
    IF quality = AGAIN \/ quality = HARD
    THEN (IF repetitions = 0 /\ quality = HARD THEN 0
          ELSE Max(1, (current_interval * HARD_MULTIPLIER) \div 10))
    ELSE IF repetitions = 0 THEN 0
    ELSE IF repetitions = 1 THEN 1
    ELSE IF repetitions = 2 THEN 6
    ELSE Max(1, Round(Product(current_interval, easiness_factor, Multiplier(quality)), drift))

(* A plausible bug: the multipliers of EASY and GOOD are swapped. *)
calculate_new_interval_swapped(current_interval, repetitions, easiness_factor, quality, drift) ==
    IF quality = AGAIN THEN 0
    ELSE IF quality = HARD
         THEN (IF repetitions = 0 THEN 0
               ELSE Max(1, (current_interval * HARD_MULTIPLIER) \div 10))
    ELSE IF repetitions = 0 THEN 0
    ELSE IF repetitions = 1 THEN 1
    ELSE IF repetitions = 2 THEN 6
    ELSE Max(1, Round(Product(current_interval, easiness_factor,
                              IF quality = EASY THEN GOOD_MULTIPLIER ELSE EASY_MULTIPLIER),
                      drift))

(* A plausible bug: HARD halves the interval whatever the repetitions. *)
calculate_new_interval_hard_halves(current_interval, repetitions, easiness_factor, quality, drift) ==
    IF quality = AGAIN THEN 0
    ELSE IF quality = HARD
         THEN Max(1, (current_interval * HARD_MULTIPLIER) \div 10)
    ELSE IF repetitions = 0 THEN 0
    ELSE IF repetitions = 1 THEN 1
    ELSE IF repetitions = 2 THEN 6
    ELSE Max(1, Round(Product(current_interval, easiness_factor, Multiplier(quality)), drift))

(* SRSEngine._calculate_new_interval; repetitions is the updated count. *)
calculate_new_interval(current_interval, repetitions, easiness_factor, quality, drift) ==
    IF quality = AGAIN THEN 0
    ELSE IF quality = HARD
         THEN (IF repetitions = 0 THEN 0
               ELSE Max(1, (current_interval * HARD_MULTIPLIER) \div 10))
    ELSE IF repetitions = 0 THEN 0
    ELSE IF repetitions = 1 THEN 1
    ELSE IF repetitions = 2 THEN 6
    ELSE Max(1, Round(Product(current_interval, easiness_factor, Multiplier(quality)), drift))

(* A plausible bug: the engine reads the clock although a review time is   *)
(* given.                                                                  *)
EffectiveReviewTime_clock(review_time, clock) == clock

(* `if review_time is None: review_time = datetime.utcnow()`. *)
EffectiveReviewTime(review_time, clock) ==
    IF review_time = NoneT THEN clock ELSE review_time

(* SRSEngine.update_after_review.  ret is the returned SRSState, arg the   *)
(* object that was passed in as it is after the call: the code writes to   *)
(* new_state only.                                                         *)
update_after_review_old_factor(current_state, review_quality, review_time, time_spent, clock, drift) ==
    LET t    == EffectiveReviewTime(review_time, clock)
        adj  == AdjustedQuality(review_quality, time_spent)
        ef   == calculate_new_easiness_factor(current_state.easiness_factor, adj)
        reps == new_repetitions(adj, current_state.repetitions)
        iv   == calculate_new_interval(current_state.interval, reps,
                                       current_state.easiness_factor, adj, drift)
    IN  [ret |-> [easiness_factor  |-> ef,
                  interval         |-> iv,
                  repetitions      |-> reps,
                  next_review_date |-> t + iv,
                  last_review_date |-> t],
         arg |-> current_state]
update_after_review(current_state, review_quality, review_time, time_spent, clock, drift) ==
    LET t    == EffectiveReviewTime(review_time, clock)
        adj  == AdjustedQuality(review_quality, time_spent)
        ef   == calculate_new_easiness_factor(current_state.easiness_factor, adj)
        reps == new_repetitions(adj, current_state.repetitions)
        iv   == calculate_new_interval(current_state.interval, reps, ef, adj, drift)
    IN  [ret |-> [easiness_factor  |-> ef,
                  interval         |-> iv,
                  repetitions      |-> reps,
                  next_review_date |-> t + iv,
                  last_review_date |-> t],
         arg |-> current_state]

(* The drifts that make a difference for a call: one of them unless the    *)
(* interval is computed by rounding an exact tie.                          *)
Drifts(current_state, review_quality, time_spent) ==
    LET adj  == AdjustedQuality(review_quality, time_spent)
        ef   == calculate_new_easiness_factor(current_state.easiness_factor, adj)
        reps == new_repetitions(adj, current_state.repetitions)
    IN  IF adj >= GOOD /\ reps >= 3
           /\ IsTie(Product(current_state.interval, ef, Multiplier(adj)))
        THEN {-1, 0, 1} ELSE {0}

---------------------------------------------------------------------------
(* The scheduler on its own: a caller builds states and reviews them.      *)

CtorEf == {100, 205, 300}
CtorInterval == {0, 30}
CtorReps == {0, 3}
TimeSpent == {0, 3000, 20000}

(* The caller starts from a new item (create_initial_state) or from an     *)
(* SRSState it builds from stored values, as _update_vocabulary_srs does.  *)
SrsInit ==
    /\ now = 0
    /\ \/ /\ cur = create_initial_state(NoneT, 0)
          /\ ctor = DEFAULT_EASINESS_FACTOR
       \/ \E ef \in CtorEf, iv \in CtorInterval, reps \in CtorReps :
             /\ cur = SRSState(ef, iv, reps, NoneT, NoneT, 0)
             /\ ctor = ef
    /\ orig = cur
    /\ args = <<>>
    /\ new_state = <<>>
    /\ again = <<>>
    /\ passes = IF cur.repetitions = 0 /\ cur.interval = 0 THEN 0 ELSE -1
    /\ vocab = <<>>
    /\ questions = <<>>
    /\ nrows = 0
    /\ sessions = <<>>
    /\ applied = <<>>
    /\ quiz = <<>>
    /\ response = <<>>
    /\ reqs = <<>>

(* The state the next review starts from: the last result, or the object   *)
(* just built.                                                             *)
Input == IF new_state = <<>> THEN cur ELSE new_state[1]

(* One call of update_after_review (as simulate_review_sequence chains     *)
(* them).                                                                  *)
Review(q, t, ts, d) ==
    /\ Input.repetitions < MaxReps
    /\ Input.interval <= MaxInterval
    /\ d \in Drifts(Input, q, ts)
    /\ LET r == update_after_review(Input, q, t, ts, now, d)
       IN  /\ orig' = Input
           /\ cur' = r.arg
           /\ new_state' = <<r.ret>>
           /\ args' = <<[review_quality |-> q, review_time |-> t,
                         time_spent |-> ts, drift |-> d]>>
           /\ passes' = IF AdjustedQuality(q, ts) < GOOD THEN 0
                        ELSE IF passes >= 0 THEN passes + 1 ELSE -1
    /\ again' = <<>>
    /\ UNCHANGED <<now, ctor>>
    /\ UNCHANGED dbVars

(* The same call once more, with the same object and arguments. *)
ReviewSame ==
    /\ args # <<>>
    /\ again = <<>>
    /\ LET a == args[1]
           r == update_after_review(cur, a.review_quality, a.review_time,
                                    a.time_spent, now, a.drift)
       IN  /\ again' = <<r.ret>>
           /\ cur' = r.arg
    /\ UNCHANGED <<now, orig, args, new_state, ctor, passes>>
    /\ UNCHANGED dbVars

Tick ==
    /\ now < MaxClock
    /\ now' = now + 1
    /\ UNCHANGED srsVars
    /\ UNCHANGED dbVars

SrsNext ==
    \/ \E q \in ReviewQuality, t \in ReviewTimes, ts \in TimeSpent, d \in {-1, 0, 1} :
          Review(q, t, ts, d)
    \/ ReviewSame
    \/ Tick

SpecSRS == SrsInit /\ [][SrsNext]_vars

(* The same caller reviewing at the clock, with answer times on both sides *)
(* of and exactly at the two thresholds of the speed adjustment.           *)
ElapsedMs == {0, 3000, 5000, 10000, 15000, 20000}

ElapsedNext ==
    \E q \in ReviewQuality, ts \in ElapsedMs, d \in {-1, 0, 1} :
       Review(q, NoneT, ts, d)

SpecElapsed == SrsInit /\ [][ElapsedNext]_vars

---------------------------------------------------------------------------
(* The database and the services on it.                                    *)

(* Bounds of the model. *)
NumVocab == 2
MaxRows == 2
MaxSessions == 2
MaxPerVocab == 2
MaxApplied == 2

Vocabs == 1..NumVocab
Users == {1, 2}

(* Every vocabulary of the model belongs to user 1; user 2 owns none. *)
Owner(v) == 1

(* The words are function words; the odd ones have a stored context        *)
(* sentence (Vocabulary.contexts), the even ones have none.                *)
Word(v) == IF v = 1 THEN "at" ELSE IF v = 2 THEN "in" ELSE "on"
HasContext(v) == v % 2 = 1

(* Optional[bool] columns. *)
NoneB == "None"
Bool(b) == IF b THEN "True" ELSE "False"

(* str.strip().lower() on the answers of the model. *)
Normalize(a) ==
    IF a = " AT " THEN "at"
    ELSE IF a = "At" THEN "at"
    ELSE IF a = " in" THEN "in"
    ELSE a

(* What a caller may submit. *)
Answers == {" AT ", "in"}
TimeSpentMs == {3000, 20000}
AnswerChanges == {1}
Modes == {"due", "new"}

(* A Vocabulary row as created: Vocabulary field defaults. *)
NewVocabulary(clock) ==
    [easiness_factor  |-> DEFAULT_EASINESS_FACTOR,
     interval         |-> 0,
     repetitions      |-> 0,
     next_review_date |-> clock,
     last_review_date |-> NoneT]

(* The usage_count of a row whose creator does not set it. *)
DefaultUsageCount == 0

(* A GeneratedQuestion row as created; session_id 0 is None, and          *)
(* question_data is kept as its origin: a strategy's output or the AI      *)
(* provider's answer.                                                      *)
GeneratedQuestion(v, type, data, sid, used, usage) ==
    [vocabulary_id       |-> v,
     question_type       |-> type,
     question_data       |-> data,
     session_id          |-> sid,
     is_used             |-> used,
     usage_count         |-> usage,
     user_answer         |-> "",
     is_correct          |-> NoneB,
     time_spent_ms       |-> NoneT,
     answer_change_count |-> 0]

(* MCQStrategy.generate / FillBlankStrategy.generate: the type of the      *)
(* question they return, the definition-recall question when the           *)
(* vocabulary has no context sentence.                                     *)
MCQStrategyType(v) == IF HasContext(v) THEN "multiple_choice" ELSE "meaning_input"
FillBlankStrategyType(v) == IF HasContext(v) THEN "fill_blank" ELSE "meaning_input"

(* QuestionGeneratorFactory.generate_multiple_questions for a function     *)
(* word: the types of the count questions, MCQ and fill-blank in turn.     *)
generate_multiple_questions(v, count) ==
    [i \in 1..count |-> IF (i - 1) % 2 = 0 THEN MCQStrategyType(v)
                        ELSE FillBlankStrategyType(v)]

(* ReviewService._get_vocabularies_for_review: the rows the WHERE clause   *)
(* keeps.                                                                  *)
Candidates(user_id, mode) ==
    {v \in DOMAIN vocab :
        /\ Owner(v) = user_id
        /\ mode = "due" => vocab[v].next_review_date <= now
        /\ mode = "new" => vocab[v].repetitions = 0}

(* ORDER BY next_review_date ASC LIMIT max: the possible results; rows     *)
(* with equal dates come in any order.                                     *)
Selections_unordered(cands, max) ==
    {S \in SUBSET cands : Cardinality(S) = Min(max, Cardinality(cands))}
Selections(cands, max) ==
    {S \in SUBSET cands :
        /\ Cardinality(S) = Min(max, Cardinality(cands))
        /\ \A a \in S, b \in cands \ S :
              vocab[a].next_review_date <= vocab[b].next_review_date}

(* A plausible bug: the empty session is left in progress. *)
EmptySession_in_progress(user_id) ==
    [user_id         |-> user_id,
     status          |-> "in_progress",
     total_questions |-> 0,
     correct_count   |-> 0,
     completed_at    |-> NoneT]

(* The empty session of create_session. *)
EmptySession(user_id) ==
    [user_id         |-> user_id,
     status          |-> "completed",
     total_questions |-> 0,
     correct_count   |-> 0,
     completed_at    |-> NoneT]

(* The ReviewSession of create_session step 2. *)
NewSession(user_id, total) ==
    [user_id         |-> user_id,
     status          |-> "in_progress",
     total_questions |-> total,
     correct_count   |-> 0,
     completed_at    |-> NoneT]

(* A set of vocabulary ids as the sequence in increasing id order. *)
RECURSIVE SeqOf(_)
SeqOf(S) ==
    IF S = {} THEN <<>>
    ELSE LET m == CHOOSE x \in S : \A y \in S : x <= y
         IN  <<m>> \o SeqOf(S \ {m})

(* The unassigned rows of a vocabulary: the SELECT of                      *)
(* _get_questions_for_vocabulary and get_pregenerated_questions.           *)
(* A pool query that forgets the session filter. *)
PoolOf_any_session(v) ==
    {k \in DOMAIN questions : questions[k].vocabulary_id = v}

PoolOf(v) ==
    {k \in DOMAIN questions :
        /\ questions[k].vocabulary_id = v
        /\ questions[k].session_id = 0
        /\ ~questions[k].is_used}

(* ... LIMIT count: any count of them, or all when there are fewer. *)
PoolPicks(v, count) ==
    {P \in SUBSET PoolOf(v) : Cardinality(P) = Min(count, Cardinality(PoolOf(v)))}

(* For each of the vocabularies vs the pool rows one session takes. *)
RECURSIVE PickFunctions(_, _)
PickFunctions(vs, count) ==
    IF vs = {} THEN {<<>>}
    ELSE LET v == CHOOSE x \in vs : TRUE
         IN  {f @@ (v :> P) : f \in PickFunctions(vs \ {v}, count),
                              P \in PoolPicks(v, count)}

(* ReviewService._get_questions_for_vocabulary for the vocabularies vs in  *)
(* turn, on the rows qs of which n were ever created: pick[v] are the pool *)
(* rows taken, the rest is generated.                                      *)
RECURSIVE GetQuestions(_, _, _, _, _, _)
GetQuestions(vs, qs, n, session_id, count, pick) ==
    IF vs = <<>> THEN [rows |-> qs, created |-> n]
    ELSE LET v         == Head(vs)
             marked    == [k \in DOMAIN qs |->
                              IF k \in pick[v]
                              THEN [qs[k] EXCEPT !.session_id = session_id,
                                                 !.is_used = TRUE]
                              ELSE qs[k]]
             remaining == count - Cardinality(pick[v])
             types     == generate_multiple_questions(v, remaining)
             added     == [k \in (n + 1)..(n + remaining) |->
                              GeneratedQuestion(v, types[k - n], "strategy", session_id, TRUE,
                                                DefaultUsageCount)]
             merged    == [k \in DOMAIN qs \cup DOMAIN added |->
                              IF k \in DOMAIN added THEN added[k] ELSE marked[k]]
         IN  GetQuestions(Tail(vs), merged, n + remaining, session_id, count, pick)

(* No call has returned yet. *)
NoResponse == <<>>

(* What a call hands back: its value, or the exception it lets through. *)
Returned(call, value) == [call |-> call, error |-> FALSE, value |-> value]
Raised(call) == [call |-> call, error |-> TRUE, value |-> 0]

(* ReviewService.create_session. *)
CreateSession(user_id, mode, max_vocabularies, questions_per_vocab) ==
    /\ Len(sessions) < MaxSessions
    /\ \E vocabularies \in Selections(Candidates(user_id, mode), max_vocabularies) :
          IF vocabularies = {}
          THEN /\ sessions' = Append(sessions, EmptySession(user_id))
               /\ UNCHANGED <<vocab, questions, nrows, applied>>
          ELSE \E pick \in PickFunctions(vocabularies, questions_per_vocab) :
                  /\ LET r == GetQuestions(SeqOf(vocabularies), questions, nrows,
                                           Len(sessions) + 1, questions_per_vocab, pick)
                     IN  /\ r.created <= MaxRows
                         /\ questions' = r.rows
                         /\ nrows' = r.created
                         /\ applied' = [k \in 1..r.created |->
                                           IF k \in DOMAIN applied THEN applied[k] ELSE 0]
                  /\ sessions' = Append(sessions,
                        NewSession(user_id,
                                   Cardinality(vocabularies) * questions_per_vocab))
                  /\ UNCHANGED vocab
    /\ response' = Returned("create_session", Len(sessions) + 1)
    /\ UNCHANGED <<now, quiz>>
    /\ UNCHANGED <<srsVars, reqs>>

(* ReviewService.create_session when a strategy raises while the questions *)
(* of one of the vocabularies are generated: nothing catches the exception *)
(* on the way out, and the request's transaction is rolled back.           *)
CreateSessionFails(user_id, mode, max_vocabularies, questions_per_vocab) ==
    /\ \E vocabularies \in Selections(Candidates(user_id, mode), max_vocabularies) :
       \E pick \in PickFunctions(vocabularies, questions_per_vocab) :
       \E v \in vocabularies :
          Cardinality(pick[v]) < questions_per_vocab
    /\ response' = Raised("create_session")
    /\ UNCHANGED <<now, vocab, questions, nrows, sessions, applied, quiz>>
    /\ UNCHANGED <<srsVars, reqs>>

(* The evaluation of submit_answer. *)
Evaluate(user_answer, correct_answer) ==
    Normalize(user_answer) = Normalize(correct_answer)

(* A plausible bug: the answer is folded into the scheduler at once. *)
SubmitAnswer_updates_srs(k, user_answer, time_spent_ms, answer_change_count) ==
    /\ k \in DOMAIN questions
    /\ questions' = [questions EXCEPT
          ![k].user_answer = user_answer,
          ![k].is_correct = Bool(Evaluate(user_answer, Word(questions[k].vocabulary_id))),
          ![k].time_spent_ms = time_spent_ms,
          ![k].answer_change_count = answer_change_count]
    /\ vocab' = [vocab EXCEPT ![questions[k].vocabulary_id].repetitions =
                     IF Evaluate(user_answer, Word(questions[k].vocabulary_id))
                     THEN Min(@ + 1, MaxReps) ELSE 0]
    /\ UNCHANGED <<now, nrows, sessions, applied, quiz>>
    /\ UNCHANGED <<srsVars, response, reqs>>

(* An answer that puts its session back in progress. *)
SubmitAnswer_reopens(k, user_answer, time_spent_ms, answer_change_count) ==
    /\ k \in DOMAIN questions
    /\ questions' = [questions EXCEPT
          ![k].user_answer = user_answer,
          ![k].is_correct = Bool(Evaluate(user_answer, Word(questions[k].vocabulary_id))),
          ![k].time_spent_ms = time_spent_ms,
          ![k].answer_change_count = answer_change_count]
    /\ sessions' = [sid \in DOMAIN sessions |->
                       IF sid = questions[k].session_id
                       THEN [sessions[sid] EXCEPT !.status = "in_progress"]
                       ELSE sessions[sid]]
    /\ UNCHANGED <<now, vocab, nrows, applied, quiz>>
    /\ UNCHANGED <<srsVars, response, reqs>>

(* ReviewService.submit_answer; an unknown instance id raises and changes  *)
(* nothing.                                                                *)
SubmitAnswer(k, user_answer, time_spent_ms, answer_change_count) ==
    /\ k \in DOMAIN questions
    /\ questions' = [questions EXCEPT
          ![k].user_answer = user_answer,
          ![k].is_correct = Bool(Evaluate(user_answer, Word(questions[k].vocabulary_id))),
          ![k].time_spent_ms = time_spent_ms,
          ![k].answer_change_count = answer_change_count]
    /\ UNCHANGED <<now, vocab, nrows, sessions, applied, quiz>>
    /\ UNCHANGED <<srsVars, response, reqs>>

(* A plausible bug: an answer in exactly five seconds counts as fast. *)
DerivedQuality_inclusive(question) ==
    LET time_spent == IF question.time_spent_ms = NoneT THEN 0 ELSE question.time_spent_ms
    IN  IF question.is_correct = "True"
        THEN IF time_spent <= 5000 THEN EASY
             ELSE IF time_spent >= 15000 THEN HARD
             ELSE GOOD
        ELSE AGAIN

(* The quality _update_vocabulary_srs derives from an answered question. *)
DerivedQuality_slow_is_good(question) ==
    LET time_spent == IF question.time_spent_ms = NoneT THEN 0 ELSE question.time_spent_ms
    IN  IF question.is_correct = "True"
        THEN IF time_spent < 5000 THEN EASY ELSE GOOD
        ELSE AGAIN
DerivedQuality(question) ==
    LET time_spent == IF question.time_spent_ms = NoneT THEN 0 ELSE question.time_spent_ms
    IN  IF question.is_correct = "True"
        THEN IF time_spent < 5000 THEN EASY
             ELSE IF time_spent > 15000 THEN HARD
             ELSE GOOD
        ELSE AGAIN

(* ReviewService._update_vocabulary_srs on the SRS columns row of the      *)
(* question's vocabulary.                                                  *)
update_vocabulary_srs(row, question, clock, drift) ==
    LET time_spent    == IF question.time_spent_ms = NoneT THEN 0
                         ELSE question.time_spent_ms
        current_state == SRSState(row.easiness_factor, row.interval, row.repetitions,
                                  row.next_review_date, NoneT, clock)
        r == update_after_review(current_state, DerivedQuality(question), NoneT,
                                 time_spent, clock, drift).ret
    IN  [easiness_factor  |-> r.easiness_factor,
         interval         |-> r.interval,
         repetitions      |-> r.repetitions,
         next_review_date |-> r.next_review_date,
         last_review_date |-> clock]

(* The loop of complete_session over the answered questions ks (a sequence *)
(* of row keys), with the rounding drift of each call.                     *)
UpdateAll_first_only(vs, ks, clock, drifts) ==
    IF ks = <<>> THEN vs
    ELSE LET q == questions[Head(ks)]
             v == q.vocabulary_id
         IN  IF v \in DOMAIN vs
             THEN [vs EXCEPT ![v] = update_vocabulary_srs(vs[v], q, clock, drifts[Head(ks)])]
             ELSE vs
RECURSIVE UpdateAll(_, _, _, _)
UpdateAll(vs, ks, clock, drifts) ==
    IF ks = <<>> THEN vs
    ELSE LET q == questions[Head(ks)]
             v == q.vocabulary_id
         IN  UpdateAll(
                IF v \in DOMAIN vs
                THEN [vs EXCEPT ![v] = update_vocabulary_srs(vs[v], q, clock, drifts[Head(ks)])]
                ELSE vs,
                Tail(ks), clock, drifts)

(* The sequences that list the elements of S once each. *)
Orders(S) ==
    {o \in [1..Cardinality(S) -> S] : \A i, j \in 1..Cardinality(S) : i # j => o[i] # o[j]}

SessionQuestions(session_id) ==
    {k \in DOMAIN questions : questions[k].session_id = session_id}

Answered(session_id) ==
    {k \in SessionQuestions(session_id) : questions[k].is_correct # NoneB}

(* ReviewService.complete_session: it runs on every session that exists,  *)
(* whatever its status; session.questions comes in no stated order.        *)
CompleteSession(session_id) ==
    /\ session_id \in 1..Len(sessions)
    /\ \A k \in Answered(session_id) : applied[k] < MaxApplied
    /\ \E order \in Orders(Answered(session_id)) :
       \E drifts \in [Answered(session_id) -> {-1, 0, 1}] :
          vocab' = UpdateAll(vocab, order, now, drifts)
    /\ sessions' = [sessions EXCEPT
          ![session_id].status = "completed",
          ![session_id].correct_count =
              Cardinality({k \in SessionQuestions(session_id) :
                              questions[k].is_correct = "True"}),
          ![session_id].completed_at = now]
    /\ applied' = [k \in DOMAIN applied |->
                      IF k \in Answered(session_id) THEN applied[k] + 1 ELSE applied[k]]
    /\ UNCHANGED <<now, questions, nrows, quiz>>
    /\ UNCHANGED <<srsVars, response, reqs>>

(* The clock of the services. *)
DbTick ==
    /\ now < MaxClock
    /\ now' = now + 1
    /\ UNCHANGED dbVars
    /\ UNCHANGED srsVars

Init ==
    /\ now = 0
    /\ cur = create_initial_state(NoneT, 0)
    /\ orig = cur
    /\ args = <<>>
    /\ new_state = <<>>
    /\ again = <<>>
    /\ ctor = DEFAULT_EASINESS_FACTOR
    /\ passes = 0
    /\ vocab = [v \in Vocabs |-> NewVocabulary(0)]
    /\ questions = <<>>
    /\ nrows = 0
    /\ sessions = <<>>
    /\ applied = <<>>
    /\ quiz = <<>>
    /\ response = <<>>
    /\ reqs = <<>>

Next ==
    \/ \E u \in Users, m \in Modes, mv \in 1..NumVocab, c \in 1..MaxPerVocab :
          CreateSession(u, m, mv, c)
    \/ \E k \in 1..MaxRows, a \in Answers, ms \in TimeSpentMs, cc \in AnswerChanges :
          SubmitAnswer(k, a, ms, cc)
    \/ \E sid \in 1..MaxSessions : CompleteSession(sid)
    \/ DbTick

Spec == Init /\ [][Next]_vars

----------------------------------------------------------------------------
(* complete_session as two requests run it side by side: each request has  *)
(* its own database session, reads the rows it needs, computes on its      *)
(* copies, and writes at commit.  Nothing locks a row between the read and *)
(* the commit.                                                             *)

SrsColumns ==
    {"easiness_factor", "interval", "repetitions", "next_review_date", "last_review_date"}

(* The request of session_id loads the session, its questions and their   *)
(* vocabularies, and computes the new SRS columns on what it loaded.       *)
CompleteRead(session_id) ==
    /\ session_id \in 1..Len(sessions)
    /\ session_id \notin DOMAIN reqs
    /\ \E order \in Orders(Answered(session_id)) :
       \E drifts \in [Answered(session_id) -> {-1, 0, 1}] :
          reqs' = [r \in DOMAIN reqs \cup {session_id} |->
                     IF r = session_id
                     THEN [pc       |-> "commit",
                           loaded   |-> vocab,
                           order    |-> order,
                           clock    |-> now,
                           computed |-> UpdateAll(vocab, order, now, drifts)]
                     ELSE reqs[r]]
    /\ UNCHANGED <<now, vocab, questions, nrows, sessions, applied, quiz, response>>
    /\ UNCHANGED srsVars

(* The UPDATE a commit sends for a row: the columns the request changed on *)
(* its copy; the others stay as the database has them.                     *)
Flush(row, loaded, computed) ==
    [c \in SrsColumns |-> IF computed[c] # loaded[c] THEN computed[c] ELSE row[c]]

(* session.commit() of complete_session. *)
CompleteCommit(session_id) ==
    /\ session_id \in DOMAIN reqs
    /\ reqs[session_id].pc = "commit"
    /\ vocab' = [v \in DOMAIN vocab |->
                    Flush(vocab[v], reqs[session_id].loaded[v], reqs[session_id].computed[v])]
    /\ sessions' = [sessions EXCEPT
          ![session_id].status = "completed",
          ![session_id].correct_count =
              Cardinality({k \in SessionQuestions(session_id) :
                              questions[k].is_correct = "True"}),
          ![session_id].completed_at = reqs[session_id].clock]
    /\ applied' = [k \in DOMAIN applied |->
                      IF k \in Answered(session_id) THEN applied[k] + 1 ELSE applied[k]]
    /\ reqs' = [reqs EXCEPT ![session_id].pc = "done"]
    /\ response' = Returned("complete_session", session_id)
    /\ UNCHANGED <<now, questions, nrows, quiz>>
    /\ UNCHANGED srsVars

(* Sessions are created and answered, then completed by requests that may  *)
(* overlap.                                                                *)
ConcNext ==
    \/ /\ reqs = <<>>
       /\ \E u \in Users, m \in Modes, mv \in 1..NumVocab, c \in 1..MaxPerVocab :
             CreateSession(u, m, mv, c)
    \/ /\ reqs = <<>>
       /\ \E k \in 1..MaxRows, a \in Answers, ms \in TimeSpentMs, cc \in AnswerChanges :
             SubmitAnswer(k, a, ms, cc)
    \/ \E sid \in 1..MaxSessions : CompleteRead(sid)
    \/ \E sid \in 1..MaxSessions : CompleteCommit(sid)
    \/ DbTick

SpecConc == Init /\ [][ConcNext]_vars

----------------------------------------------------------------------------
(* Sessions whose creation may fail while their questions are generated.   *)

FailNext ==
    \/ \E u \in Users, m \in Modes, mv \in 1..NumVocab, c \in 1..MaxPerVocab :
          CreateSession(u, m, mv, c)
    \/ \E u \in Users, m \in Modes, mv \in 1..NumVocab, c \in 1..MaxPerVocab :
          CreateSessionFails(u, m, mv, c)
    \/ \E k \in 1..MaxRows, a \in Answers, ms \in TimeSpentMs, cc \in AnswerChanges :
          SubmitAnswer(k, a, ms, cc)
    \/ DbTick

SpecFail == Init /\ [][FailNext]_vars

---------------------------------------------------------------------------
(* One question per session, answered with latencies on both sides of the  *)
(* five and fifteen second thresholds.                                     *)

LatencyMs == {0, 3000, 5000, 15000, 20000}

QualityNext ==
    \/ \E m \in Modes : CreateSession(1, m, 1, 1)
    \/ \E k \in 1..MaxRows, a \in Answers, ms \in LatencyMs, cc \in AnswerChanges :
          SubmitAnswer(k, a, ms, cc)
    \/ \E sid \in 1..MaxSessions : CompleteSession(sid)

SpecQuality == Init /\ [][QualityNext]_vars

---------------------------------------------------------------------------
(* The quiz question pool: pre-generation and generate_quiz_session.       *)

MaxPoolRows == 11
MaxGenerated == 1

MAX_POOL_SIZE == 5
USAGE_THRESHOLD == 3
QUESTIONS_PER_VOCAB == 10

(* No quiz request in flight. *)
NoQuiz == <<>>

(* QuestionPreGeneratorService.pre_generate_for_vocabulary. *)
PreGenerate(v, count) ==
    /\ v \in DOMAIN vocab
    /\ nrows + count <= MaxPoolRows
    /\ LET types == generate_multiple_questions(v, count)
           added == [k \in (nrows + 1)..(nrows + count) |->
                        GeneratedQuestion(v, types[k - nrows], "strategy", 0, FALSE,
                                          DefaultUsageCount)]
       IN  questions' = [k \in DOMAIN questions \cup DOMAIN added |->
                            IF k \in DOMAIN added THEN added[k] ELSE questions[k]]
    /\ nrows' = nrows + count
    /\ UNCHANGED <<now, vocab, sessions, applied, quiz>>
    /\ UNCHANGED <<srsVars, response, reqs>>

(* generate_quiz_session step 1: the due vocabularies of the user. *)
DueVocabs(user_id) ==
    {v \in DOMAIN vocab : Owner(v) = user_id /\ vocab[v].next_review_date <= now}

(* generate_quiz_session step 2: the learned vocabularies that fill up. *)
FillerVocabs(user_id, selected) ==
    {v \in DOMAIN vocab : Owner(v) = user_id /\ vocab[v].repetitions > 0} \ selected

(* The due vocabularies by next_review_date. *)
DueOrders(due) ==
    {o \in Orders(due) :
        \A i, j \in 1..Cardinality(due) :
            i < j => vocab[o[i]].next_review_date <= vocab[o[j]].next_review_date}

(* generate_quiz_session steps 1 to 3: the request starts its loop over    *)
(* quiz_vocabs; a request without vocabularies returns at once.            *)
GenerateQuizSession(user_id, limit) ==
    /\ quiz = NoQuiz
    /\ \E due \in Selections(DueVocabs(user_id), limit) :
       \E filler \in SUBSET FillerVocabs(user_id, due) :
          /\ Cardinality(filler) =
                Min(limit - Cardinality(due), Cardinality(FillerVocabs(user_id, due)))
          /\ \E od \in DueOrders(due), of \in Orders(filler) :
                IF od \o of = <<>>
                THEN /\ response' = Returned("generate_quiz_session", <<>>)
                     /\ UNCHANGED quiz
                ELSE /\ quiz' = [quiz_vocabs |-> od \o of, todo |-> od \o of,
                                 pc |-> "check", out |-> <<>>]
                     /\ UNCHANGED response
    /\ UNCHANGED <<now, vocab, questions, nrows, sessions, applied>>
    /\ UNCHANGED <<srsVars, reqs>>

(* Step 4a: the cached questions of a vocabulary. *)
cached_questions(v) ==
    {k \in DOMAIN questions :
        /\ questions[k].vocabulary_id = v
        /\ questions[k].question_type = "multiple_choice"}

(* A filter that lets a question at the threshold through. *)
candidates_inclusive(v) ==
    {k \in cached_questions(v) : questions[k].usage_count <= USAGE_THRESHOLD}

candidates(v) ==
    {k \in cached_questions(v) : questions[k].usage_count < USAGE_THRESHOLD}

(* A choice that takes the question created last. *)
oldest_q_latest(v) ==
    CHOOSE k \in cached_questions(v) : \A j \in cached_questions(v) : k >= j

(* min(cached_questions, key=created_at): rows are numbered as created. *)
oldest_q(v) ==
    CHOOSE k \in cached_questions(v) : \A j \in cached_questions(v) : k <= j

(* Has the pool of v to give up a question first. *)
PoolFull(v) == Cardinality(cached_questions(v)) >= MAX_POOL_SIZE

remaining_questions(v) ==
    IF PoolFull(v) THEN cached_questions(v) \ {oldest_q(v)} ELSE cached_questions(v)

(* The vocabulary the request is at. *)
QuizVocab == Head(quiz.todo)

QuizAt(pc) == quiz # NoQuiz /\ quiz.pc = pc

(* The request goes on to its next vocabulary, or ends; handed is the     *)
(* vocabulary whose question was appended to the list, or nothing.         *)
QuizAdvance(handed) ==
    IF Tail(quiz.todo) = <<>> THEN NoQuiz
    ELSE [quiz EXCEPT !.todo = Tail(quiz.todo), !.pc = "check",
                      !.out = quiz.out \o handed]

(* The list the request returns when it ends. *)
QuizReturn(handed) ==
    IF Tail(quiz.todo) = <<>>
    THEN Returned("generate_quiz_session", quiz.out \o handed)
    ELSE response

(* Case 1: a question with usage_count below the threshold is reused. *)
AcquireReuse_uncounted ==
    /\ QuizAt("check")
    /\ candidates(QuizVocab) # {}
    /\ quiz' = QuizAdvance(<<QuizVocab>>)
    /\ response' = QuizReturn(<<QuizVocab>>)
    /\ UNCHANGED <<now, vocab, questions, nrows, sessions, applied>>
    /\ UNCHANGED <<srsVars, reqs>>
AcquireReuse_any_cached ==
    /\ QuizAt("check")
    /\ \E selected_q \in cached_questions(QuizVocab) :
          questions' = [questions EXCEPT
                           ![selected_q].usage_count = questions[selected_q].usage_count + 1]
    /\ quiz' = QuizAdvance(<<QuizVocab>>)
    /\ response' = QuizReturn(<<QuizVocab>>)
    /\ UNCHANGED <<now, vocab, nrows, sessions, applied>>
    /\ UNCHANGED <<srsVars, reqs>>
AcquireReuse ==
    /\ QuizAt("check")
    /\ \E selected_q \in candidates(QuizVocab) :
          questions' = [questions EXCEPT
                           ![selected_q].usage_count = questions[selected_q].usage_count + 1]
    /\ quiz' = QuizAdvance(<<QuizVocab>>)
    /\ response' = QuizReturn(<<QuizVocab>>)
    /\ UNCHANGED <<now, vocab, nrows, sessions, applied>>
    /\ UNCHANGED <<srsVars, reqs>>

(* Case 2: every cached question is used up; the oldest goes when the pool *)
(* is full, up to two of the others are recycled, and this is committed    *)
(* before the new question is asked for.                                   *)
AcquireExhausted_recycles_all ==
    /\ QuizAt("check")
    /\ cached_questions(QuizVocab) # {}
    /\ candidates(QuizVocab) = {}
    /\ LET remaining == remaining_questions(QuizVocab)
       IN  questions' = [k \in (DOMAIN questions \ cached_questions(QuizVocab))
                                \cup remaining |->
                           IF k \in remaining
                           THEN [questions[k] EXCEPT !.usage_count = 0]
                           ELSE questions[k]]
    /\ quiz' = [quiz EXCEPT !.pc = "generate"]
    /\ UNCHANGED <<now, vocab, nrows, sessions, applied>>
    /\ UNCHANGED <<srsVars, response, reqs>>
AcquireExhausted ==
    /\ QuizAt("check")
    /\ cached_questions(QuizVocab) # {}
    /\ candidates(QuizVocab) = {}
    /\ LET remaining == remaining_questions(QuizVocab)
       IN  \E recycled_qs \in SUBSET remaining :
              /\ Cardinality(recycled_qs) = Min(Cardinality(remaining), 2)
              /\ questions' = [k \in (DOMAIN questions \ cached_questions(QuizVocab))
                                       \cup remaining |->
                                  IF k \in recycled_qs
                                  THEN [questions[k] EXCEPT !.usage_count = 0]
                                  ELSE questions[k]]
    /\ quiz' = [quiz EXCEPT !.pc = "generate"]
    /\ UNCHANGED <<now, vocab, nrows, sessions, applied>>
    /\ UNCHANGED <<srsVars, response, reqs>>

(* Case 3: nothing cached yet. *)
AcquireEmpty ==
    /\ QuizAt("check")
    /\ cached_questions(QuizVocab) = {}
    /\ quiz' = [quiz EXCEPT !.pc = "generate"]
    /\ UNCHANGED <<now, vocab, questions, nrows, sessions, applied>>
    /\ UNCHANGED <<srsVars, response, reqs>>

(* A new question saved as not yet used. *)
AcquireGenerated_unused ==
    /\ QuizAt("generate")
    /\ nrows < MaxPoolRows
    /\ Cardinality({k \in DOMAIN questions : questions[k].question_data = "ai"})
          < MaxGenerated
    /\ questions' = [k \in DOMAIN questions \cup {nrows + 1} |->
                        IF k = nrows + 1
                        THEN GeneratedQuestion(QuizVocab, "multiple_choice", "ai", 0, FALSE, 0)
                        ELSE questions[k]]
    /\ nrows' = nrows + 1
    /\ quiz' = QuizAdvance(<<QuizVocab>>)
    /\ response' = QuizReturn(<<QuizVocab>>)
    /\ UNCHANGED <<now, vocab, sessions, applied>>
    /\ UNCHANGED <<srsVars, reqs>>

(* ai_provider.generate_question returns: the new question is saved. *)
AcquireGenerated ==
    /\ QuizAt("generate")
    /\ nrows < MaxPoolRows
    /\ Cardinality({k \in DOMAIN questions : questions[k].question_data = "ai"})
          < MaxGenerated
    /\ questions' = [k \in DOMAIN questions \cup {nrows + 1} |->
                        IF k = nrows + 1
                        THEN GeneratedQuestion(QuizVocab, "multiple_choice", "ai", 0, FALSE, 1)
                        ELSE questions[k]]
    /\ nrows' = nrows + 1
    /\ quiz' = QuizAdvance(<<QuizVocab>>)
    /\ response' = QuizReturn(<<QuizVocab>>)
    /\ UNCHANGED <<now, vocab, sessions, applied>>
    /\ UNCHANGED <<srsVars, reqs>>

(* A failure that still hands an entry for the vocabulary to the list. *)
AcquireFailed_appends ==
    /\ QuizAt("generate")
    /\ quiz' = QuizAdvance(<<QuizVocab>>)
    /\ response' = QuizReturn(<<QuizVocab>>)
    /\ UNCHANGED <<now, vocab, questions, nrows, sessions, applied>>
    /\ UNCHANGED <<srsVars, reqs>>

(* ai_provider.generate_question raises: the vocabulary is skipped. *)
AcquireFailed ==
    /\ QuizAt("generate")
    /\ quiz' = QuizAdvance(<<>>)
    /\ response' = QuizReturn(<<>>)
    /\ UNCHANGED <<now, vocab, questions, nrows, sessions, applied>>
    /\ UNCHANGED <<srsVars, reqs>>

PoolNext ==
    \/ \E v \in Vocabs : PreGenerate(v, QUESTIONS_PER_VOCAB)
    \/ \E u \in Users, limit \in 1..NumVocab : GenerateQuizSession(u, limit)
    \/ AcquireReuse
    \/ AcquireExhausted
    \/ AcquireEmpty
    \/ AcquireGenerated
    \/ AcquireFailed

SpecPool == Init /\ [][PoolNext]_vars

----------------------------------------------------------------------------
(* Sessions that take their questions from pre-generated rows: questions   *)
(* are pre-generated one at a time while the table is small.               *)

AssignNext ==
    \/ /\ nrows < MaxRows
       /\ \E v \in Vocabs : PreGenerate(v, 1)
    \/ \E u \in Users, m \in Modes, mv \in 1..NumVocab, c \in 1..MaxPerVocab :
          CreateSession(u, m, mv, c)
    \/ \E k \in 1..MaxRows, a \in Answers, ms \in TimeSpentMs, cc \in AnswerChanges :
          SubmitAnswer(k, a, ms, cc)
    \/ \E sid \in 1..MaxSessions : CompleteSession(sid)

SpecAssign == Init /\ [][AssignNext]_vars

----------------------------------------------------------------------------
(* The pool steps of generate_quiz_session for one vocabulary as two       *)
(* requests run them side by side: each request reads the cached questions *)
(* into its own database session, decides on what it read, and writes at   *)
(* its commits.  Nothing locks the rows in between.                        *)

Requests == {1, 2}

AcquireAt(r, pc) == r \in DOMAIN reqs /\ reqs[r].pc = pc

AcquireGoes(r, pc) == [reqs EXCEPT ![r].pc = pc]

(* candidates, oldest_q and remaining_questions on the rows a request has  *)
(* read.                                                                    *)
read_candidates(cached) ==
    {k \in DOMAIN cached : cached[k].usage_count < USAGE_THRESHOLD}

read_oldest_q(cached) ==
    CHOOSE k \in DOMAIN cached : \A j \in DOMAIN cached : k <= j

read_remaining_questions(cached) ==
    IF Cardinality(DOMAIN cached) >= MAX_POOL_SIZE
    THEN DOMAIN cached \ {read_oldest_q(cached)}
    ELSE DOMAIN cached

(* The subsets random.sample(remaining_questions, recycle_count) can give. *)
recycled_qs(remaining) ==
    {S \in SUBSET remaining : Cardinality(S) = Min(Cardinality(remaining), 2)}

(* The select of the cached questions. *)
AcquireRead(r, v) ==
    /\ r \notin DOMAIN reqs
    /\ reqs' = [q \in DOMAIN reqs \cup {r} |->
                  IF q = r
                  THEN [vocabulary_id    |-> v,
                        pc               |-> "decide",
                        cached_questions |-> [k \in cached_questions(v) |-> questions[k]]]
                  ELSE reqs[q]]
    /\ UNCHANGED <<now, vocab, questions, nrows, sessions, applied, quiz, response>>
    /\ UNCHANGED srsVars

(* Case 1: usage_count of the selected question is raised on the copy read *)
(* and written back; an UPDATE that finds its row gone raises, and the     *)
(* vocabulary is skipped.                                                   *)
AcquireReuseCommit(r) ==
    /\ AcquireAt(r, "decide")
    /\ \E selected_q \in read_candidates(reqs[r].cached_questions) :
          IF selected_q \in DOMAIN questions
          THEN /\ questions' = [questions EXCEPT ![selected_q].usage_count =
                                   reqs[r].cached_questions[selected_q].usage_count + 1]
               /\ reqs' = AcquireGoes(r, "done")
          ELSE /\ reqs' = AcquireGoes(r, "failed")
               /\ UNCHANGED questions
    /\ UNCHANGED <<now, vocab, nrows, sessions, applied, quiz, response>>
    /\ UNCHANGED srsVars

(* Case 2: the oldest question read is deleted when the pool read is full  *)
(* (a DELETE that finds its row gone deletes nothing), up to two of the    *)
(* others are reset, and this is committed.                                 *)
AcquireExhaustedCommit(r) ==
    /\ AcquireAt(r, "decide")
    /\ DOMAIN reqs[r].cached_questions # {}
    /\ read_candidates(reqs[r].cached_questions) = {}
    /\ LET remaining == read_remaining_questions(reqs[r].cached_questions)
           deleted   == DOMAIN reqs[r].cached_questions \ remaining
       IN  \E recycled \in recycled_qs(remaining) :
              IF recycled \subseteq DOMAIN questions
              THEN /\ questions' = [k \in DOMAIN questions \ deleted |->
                                       IF k \in recycled
                                       THEN [questions[k] EXCEPT !.usage_count = 0]
                                       ELSE questions[k]]
                   /\ reqs' = AcquireGoes(r, "generate")
              ELSE /\ reqs' = AcquireGoes(r, "failed")
                   /\ UNCHANGED questions
    /\ UNCHANGED <<now, vocab, nrows, sessions, applied, quiz, response>>
    /\ UNCHANGED srsVars

(* Case 3: nothing was read. *)
AcquireEmptyDecide(r) ==
    /\ AcquireAt(r, "decide")
    /\ DOMAIN reqs[r].cached_questions = {}
    /\ reqs' = AcquireGoes(r, "generate")
    /\ UNCHANGED <<now, vocab, questions, nrows, sessions, applied, quiz, response>>
    /\ UNCHANGED srsVars

(* The new question is saved. *)
AcquireInsert(r) ==
    /\ AcquireAt(r, "generate")
    /\ questions' = [k \in DOMAIN questions \cup {nrows + 1} |->
                        IF k = nrows + 1
                        THEN GeneratedQuestion(reqs[r].vocabulary_id, "multiple_choice",
                                               "ai", 0, FALSE, 1)
                        ELSE questions[k]]
    /\ nrows' = nrows + 1
    /\ reqs' = AcquireGoes(r, "done")
    /\ UNCHANGED <<now, vocab, sessions, applied, quiz, response>>
    /\ UNCHANGED srsVars

(* ai_provider.generate_question raises. *)
AcquireInsertFails(r) ==
    /\ AcquireAt(r, "generate")
    /\ reqs' = AcquireGoes(r, "failed")
    /\ UNCHANGED <<now, vocab, questions, nrows, sessions, applied, quiz, response>>
    /\ UNCHANGED srsVars

(* Pools a vocabulary can have when the two requests arrive: none, one     *)
(* question just generated, and one, four or five questions all used up.   *)
SeedPools ==
    {<<0, USAGE_THRESHOLD>>, <<1, 1>>, <<1, USAGE_THRESHOLD>>,
     <<MAX_POOL_SIZE - 1, USAGE_THRESHOLD>>, <<MAX_POOL_SIZE, USAGE_THRESHOLD>>}

AcquireInit ==
    /\ now = 0
    /\ cur = create_initial_state(NoneT, 0)
    /\ orig = cur
    /\ args = <<>>
    /\ new_state = <<>>
    /\ again = <<>>
    /\ ctor = DEFAULT_EASINESS_FACTOR
    /\ passes = 0
    /\ vocab = [v \in Vocabs |-> NewVocabulary(0)]
    /\ \E seed \in SeedPools :
          /\ questions = [k \in 1..seed[1] |->
                             GeneratedQuestion(1, "multiple_choice", "ai", 0, FALSE, seed[2])]
          /\ nrows = seed[1]
    /\ sessions = <<>>
    /\ applied = <<>>
    /\ quiz = <<>>
    /\ response = <<>>
    /\ reqs = <<>>

AcquireNext ==
    \/ \E r \in Requests : AcquireRead(r, 1)
    \/ \E r \in Requests : AcquireReuseCommit(r)
    \/ \E r \in Requests : AcquireExhaustedCommit(r)
    \/ \E r \in Requests : AcquireEmptyDecide(r)
    \/ \E r \in Requests : AcquireInsert(r)
    \/ \E r \in Requests : AcquireInsertFails(r)

SpecAcquire == AcquireInit /\ [][AcquireNext]_vars

----------------------------------------------------------------------------
(* Question strategies (app/services/question_generator).  A str is the    *)
(* sequence of its pieces: a word, a blank, or a fixed piece of a          *)
(* template, so that concatenation, equality and str.replace are computed. *)
(* None is a value of its own.                                             *)

NoneStr == <<"<None>">>
NoneOptions == <<NoneStr>>

(* bool(s) of an Optional[str]. *)
Truthy(s) == s # NoneStr /\ s # <<>>

(* s.strip() == "". *)
Blank(s) == \A i \in DOMAIN s : s[i] = " "

(* An Optional[str] inside an f-string. *)
Format(s) == IF s = NoneStr THEN <<"None">> ELSE s

(* str.replace(old, new), old not empty. *)
RECURSIVE Replace(_, _, _)
Replace(s, old, new) ==
    IF Len(s) < Len(old) THEN s
    ELSE IF SubSeq(s, 1, Len(old)) = old
         THEN new \o Replace(SubSeq(s, Len(old) + 1, Len(s)), old, new)
         ELSE <<Head(s)>> \o Replace(Tail(s), old, new)

(* x in a list. *)
In(x, list) == \E i \in DOMAIN list : list[i] = x

(* random.shuffle: every order of the list. *)
Shuffle(list) ==
    {[i \in DOMAIN list |-> list[p[i]]] : p \in Permutations(DOMAIN list)}

(* random.sample(population, k): k entries at distinct positions. *)
Samples(population, k) ==
    {[i \in 1..k |-> population[f[i]]] :
        f \in {g \in [1..k -> DOMAIN population] :
                  \A i, j \in 1..k : i # j => g[i] # g[j]}}

(* The filter [x for x in list if keep]. *)
RECURSIVE WordsOtherThan(_, _)
WordsOtherThan(distractors, word) ==
    IF distractors = <<>> THEN <<>>
    ELSE (IF Head(distractors).word # word THEN <<Head(distractors).word>>
          ELSE <<>>) \o WordsOtherThan(Tail(distractors), word)

(* The members of the enum QuestionType. *)
QuestionType ==
    [MEANING_INPUT |-> "meaning_input", FILL_BLANK |-> "fill_blank",
     MULTIPLE_CHOICE |-> "multiple_choice", ERROR_DETECTION |-> "error_detection"]

PREPOSITION_CONFUSION_GROUPS ==
    [at |-> <<<<"in">>, <<"on">>, <<"to">>>>,
     in |-> <<<<"at">>, <<"on">>, <<"into">>>>,
     on |-> <<<<"at">>, <<"in">>, <<"onto">>>>,
     for |-> <<<<"since">>, <<"from">>, <<"to">>>>,
     since |-> <<<<"for">>, <<"from">>>>,
     to |-> <<<<"for">>, <<"at">>, <<"into">>>>]

(* word in PREPOSITION_CONFUSION_GROUPS. *)
InConfusionGroups(word) ==
    Len(word) = 1 /\ word[1] \in DOMAIN PREPOSITION_CONFUSION_GROUPS

(* list[:n]. *)
FirstN(list, n) == SubSeq(list, 1, IF Len(list) < n THEN Len(list) ELSE n)

(* The while loop that appends one filler until the list has n entries. *)
PadWith_once(options, filler, n) ==
    IF Len(options) < n THEN Append(options, filler) ELSE options
RECURSIVE PadWith(_, _, _)
PadWith(options, filler, n) ==
    IF Len(options) < n THEN PadWith(Append(options, filler), filler, n)
    ELSE options

(* MeaningQuestionStrategy.generate.  The fallback text and the fixed      *)
(* prompts are Vietnamese in the source; they are written here without     *)
(* their diacritics.  The keys explanation and confusion_pair_group of the *)
(* question data are left out: they are derived from the keys kept.        *)
MeaningQuestionStrategy_blank_kept(vocabulary) ==
    LET definition == IF vocabulary.meanings # <<>>
                      THEN vocabulary.meanings[1] ELSE NoneStr
        text == IF ~Truthy(definition)
                THEN <<"Tu vung: ">> \o vocabulary.word ELSE definition
    IN  [question_type |-> QuestionType.MEANING_INPUT,
         question_text |-> text,
         correct_answer |-> vocabulary.word,
         options |-> NoneOptions,
         context_sentence |-> NoneStr]
MeaningQuestionStrategy(vocabulary) ==
    LET definition == IF vocabulary.meanings # <<>>
                      THEN vocabulary.meanings[1] ELSE NoneStr
        text == IF ~Truthy(definition) \/ Blank(definition)
                THEN <<"Tu vung: ">> \o vocabulary.word ELSE definition
    IN  [question_type |-> QuestionType.MEANING_INPUT,
         question_text |-> text,
         correct_answer |-> vocabulary.word,
         options |-> NoneOptions,
         context_sentence |-> NoneStr]

(* MCQStrategy.generate: every question data the call can return. *)
MCQStrategy(vocabulary, distractors) ==
    LET word == vocabulary.word
        example_sentence == IF vocabulary.contexts # <<>>
                            THEN vocabulary.contexts[1] ELSE NoneStr
        context_sentence == Replace(example_sentence, word, <<"___">>)
        distractor_words == WordsOtherThan(distractors, word)
        k == IF Len(distractor_words) < 3 THEN Len(distractor_words) ELSE 3
        picked == IF InConfusionGroups(word)
                  THEN {FirstN(PREPOSITION_CONFUSION_GROUPS[word[1]], 3)}
                  ELSE Samples(distractor_words, k)
    IN  IF ~Truthy(example_sentence) THEN {MeaningQuestionStrategy(vocabulary)}
        ELSE {[question_type |-> QuestionType.MULTIPLE_CHOICE,
               question_text |-> context_sentence,
               correct_answer |-> word,
               options |-> o,
               context_sentence |-> context_sentence] :
                 o \in UNION {Shuffle(PadWith(<<word>> \o p, <<"other">>, 4))
                                 : p \in picked}}

(* FillBlankStrategy.generate: every question data the call can return. *)
FillBlankStrategy_no_fallback(vocabulary, distractors) ==
    LET word == vocabulary.word
        chosen == IF vocabulary.contexts # <<>>
                  THEN {vocabulary.contexts[i] : i \in DOMAIN vocabulary.contexts}
                  ELSE {NoneStr}
    IN  {[question_type |-> QuestionType.FILL_BLANK,
          question_text |-> <<"Dien tu thich hop vao cho trong:">>,
          correct_answer |-> word,
          options |-> NoneOptions,
          context_sentence |-> Replace(example_sentence, word, <<"___">>)]
            : example_sentence \in chosen}
FillBlankStrategy(vocabulary, distractors) ==
    LET word == vocabulary.word
        chosen == IF vocabulary.contexts # <<>>
                  THEN {vocabulary.contexts[i] : i \in DOMAIN vocabulary.contexts}
                  ELSE {NoneStr}
    IN  {IF ~Truthy(example_sentence) THEN MeaningQuestionStrategy(vocabulary)
         ELSE [question_type |-> QuestionType.FILL_BLANK,
               question_text |-> <<"Dien tu thich hop vao cho trong:">>,
               correct_answer |-> word,
               options |-> NoneOptions,
               context_sentence |-> Replace(example_sentence, word, <<"___">>)]
            : example_sentence \in chosen}

----------------------------------------------------------------------------
(* The strategies of the content words. *)

(* str(n) for the lengths an option list has while it is padded. *)
NumStr(n) == IF n = 1 THEN "1" ELSE IF n = 2 THEN "2" ELSE "3"

(* QuestionType.<name>: AttributeError unless name is a member. *)
IsMember(name) == name \in DOMAIN QuestionType

(* SynonymAntonymStrategy.generate, the loop over the distractors. *)
RECURSIVE SynonymOptions(_, _, _)
SynonymOptions(options, distractors, vocabulary) ==
    IF distractors = <<>> THEN options
    ELSE SynonymOptions(
            IF Head(distractors).id # vocabulary.id /\ Len(options) < 4
            THEN Append(options, Head(distractors).word) ELSE options,
            Tail(distractors), vocabulary)

(* while len(options) < 4: options.append(f"word_{len(options)}"). *)
RECURSIVE PadNumbered(_, _)
PadNumbered(options, prefix) ==
    IF Len(options) < 4
    THEN PadNumbered(Append(options, <<prefix, NumStr(Len(options))>>), prefix)
    ELSE options

(* SynonymAntonymStrategy.generate: the question data it can return once   *)
(* the enum member of its question_type exists.                            *)
SynonymAntonymStrategy(vocabulary, distractors) ==
    {[question_type |-> "synonym_antonym_mcq",
      question_text |-> <<"Which word is CLOSEST in meaning to '">>
                           \o vocabulary.word \o <<"'?">>,
      correct_answer |-> vocabulary.word,
      options |-> o,
      context_sentence |-> NoneStr] :
        o \in Shuffle(PadNumbered(
                 SynonymOptions(<<vocabulary.word>>, distractors, vocabulary),
                 "word_"))}

(* UsageContextStrategy.generate, fake_templates. *)
fake_templates(word) ==
    << <<"The ">> \o word \o <<" is very important.">>,
       <<"I like to ">> \o word \o <<" every day.">>,
       <<"This is a good ">> \o word \o <<".">>,
       <<"She has a beautiful ">> \o word \o <<".">> >>

(* The loop over the distractors that builds the fake sentences. *)
RECURSIVE FakeSentences(_, _, _)
FakeSentences(options, distractors, vocabulary) ==
    IF distractors = <<>> THEN options
    ELSE LET dist == Head(distractors)
             fake_sentence == Replace(dist.contexts[1], dist.word, vocabulary.word)
         IN  FakeSentences(
                IF /\ dist.id # vocabulary.id
                   /\ Len(options) < 4
                   /\ dist.contexts # <<>>
                   /\ fake_sentence # options[1]
                THEN Append(options, fake_sentence) ELSE options,
                Tail(distractors), vocabulary)

(* The while loop that pads with the templates.  It appends nothing when   *)
(* the template of the current length is already an option, and so never   *)
(* ends: the result is then the empty list, which no ended loop yields.    *)
RECURSIVE PadTemplates(_, _)
PadTemplates(options, word) ==
    IF Len(options) >= 4 THEN options
    ELSE LET fake == fake_templates(word)[Len(options)]
         IN  IF In(fake, options) THEN <<>>
             ELSE PadTemplates(Append(options, fake), word)

(* UsageContextStrategy.generate, the option list before the shuffle. *)
UsageOptions(vocabulary, distractors) ==
    LET word == vocabulary.word
        definition == IF vocabulary.meanings # <<>>
                      THEN vocabulary.meanings[1] ELSE <<"something">>
    IN  IF vocabulary.contexts # <<>>
        THEN PadTemplates(
                FakeSentences(<<vocabulary.contexts[1]>>, distractors, vocabulary),
                word)
        ELSE << <<"The ">> \o word \o <<" is ">> \o Format(definition) \o <<".">>,
                <<"The ">> \o word \o <<" is ">> \o <<"incorrect">> \o <<".">>,
                <<"The ">> \o word \o <<" is ">> \o <<"wrong">> \o <<".">>,
                <<"The ">> \o word \o <<" is ">> \o <<"not right">> \o <<".">> >>

(* UsageContextStrategy.generate: every question data the call can return. *)
UsageContextStrategy(vocabulary, distractors) ==
    LET word == vocabulary.word
        options == UsageOptions(vocabulary, distractors)
    IN  {[question_type |-> QuestionType.MULTIPLE_CHOICE,
          question_text |-> IF vocabulary.contexts # <<>>
                            THEN <<"Which sentence uses '">> \o word
                                    \o <<"' CORRECTLY?">>
                            ELSE <<"Which sentence describes '">> \o word
                                    \o <<"' correctly?">>,
          correct_answer |-> options[1],
          options |-> o,
          context_sentence |-> NoneStr] : o \in Shuffle(options)}

(* DefinitionMCQStrategy.generate, the loop over the distractors. *)
RECURSIVE DefinitionOptions(_, _, _)
DefinitionOptions(options, distractors, vocabulary) ==
    IF distractors = <<>> THEN options
    ELSE LET dist == Head(distractors)
         IN  DefinitionOptions(
                IF /\ dist.id # vocabulary.id
                   /\ Len(options) < 4
                   /\ dist.meanings # <<>>
                   /\ Truthy(dist.meanings[1])
                   /\ ~In(dist.meanings[1], options)
                THEN Append(options, dist.meanings[1]) ELSE options,
                Tail(distractors), vocabulary)

(* DefinitionMCQStrategy.generate: the question data it can return once    *)
(* the enum member of its question_type exists.                            *)
DefinitionMCQStrategy(vocabulary, distractors) ==
    LET correct_answer == IF vocabulary.meanings # <<>>
                          THEN vocabulary.meanings[1]
                          ELSE <<"Definition of ">> \o vocabulary.word
    IN  {[question_type |-> "definition_mcq",
          question_text |-> <<"What is the meaning of '">> \o vocabulary.word
                               \o <<"'?">>,
          correct_answer |-> correct_answer,
          options |-> o,
          context_sentence |-> NoneStr] :
            o \in Shuffle(PadNumbered(
                     DefinitionOptions(<<correct_answer>>, distractors, vocabulary),
                     "Incorrect definition "))}

----------------------------------------------------------------------------
(* The strategies as calls: the arguments of the pending call are in reqs, *)
(* what the call handed back is in response.                               *)

(* Vocabulary as the strategies read it: contexts holds the sentence of    *)
(* each VocabularyContext, meanings the definition of each Meaning.        *)
StrategyVocabulary(id, word, contexts, meanings) ==
    [id |-> id, word |-> word, contexts |-> contexts, meanings |-> meanings]

TargetWords == {<<"at">>, <<"since">>, <<"family">>}

(* The context lists of the item asked about: none, an empty sentence, a   *)
(* sentence of its own, a sentence that reads like a fake template.        *)
TargetContexts(word) ==
    {<<>>,
     << <<>> >>,
     << <<"We meet ">> \o word \o <<" noon.">> >>,
     << fake_templates(word)[1] >>,
     << fake_templates(word)[2] >>,
     << <<"We meet ">> \o word \o <<" noon.">>, fake_templates(word)[1] >>}

(* Its meanings: none, or a first definition that is null, empty, blank    *)
(* or a text.                                                              *)
TargetMeanings ==
    {<<>>, <<NoneStr>>, << <<>> >>, << <<" ">> >>, << <<"a household">> >>}

(* The other items of the owner a distractor list is drawn from. *)
OtherVocabularies ==
    << StrategyVocabulary(2, <<"in">>, << <<"He is ", "in", " town.">> >>,
                          << <<"inside">> >>),
       StrategyVocabulary(3, <<"home">>, << fake_templates(<<"home">>)[1] >>,
                          << <<"a household">> >>),
       StrategyVocabulary(4, <<"on">>, <<>>, <<NoneStr>>) >>

(* The sub-lists of a list, in its order. *)
RECURSIVE SubLists(_)
SubLists(list) ==
    IF list = <<>> THEN {<<>>}
    ELSE LET rest == SubLists(Tail(list))
         IN  rest \cup {<<Head(list)>> \o r : r \in rest}

StrategyInit ==
    /\ now = 0
    /\ cur = create_initial_state(NoneT, 0)
    /\ orig = cur
    /\ args = <<>>
    /\ new_state = <<>>
    /\ again = <<>>
    /\ ctor = DEFAULT_EASINESS_FACTOR
    /\ passes = 0
    /\ vocab = <<>>
    /\ questions = <<>>
    /\ nrows = 0
    /\ sessions = <<>>
    /\ applied = <<>>
    /\ quiz = <<>>
    /\ response = NoResponse
    /\ \E word \in TargetWords, meanings \in TargetMeanings :
       \E contexts \in TargetContexts(word) :
       \E distractors \in SubLists(
             <<StrategyVocabulary(1, word, contexts, meanings)>> \o OtherVocabularies) :
          reqs = [vocabulary |-> StrategyVocabulary(1, word, contexts, meanings),
                  distractors |-> distractors,
                  pc |-> "call"]

(* One call of generate returns one of the question data it can build. *)
Generate(call, outcomes) ==
    /\ reqs.pc = "call"
    /\ \E question_data \in outcomes : response' = Returned(call, question_data)
    /\ reqs' = [reqs EXCEPT !.pc = "done"]
    /\ UNCHANGED <<now, srsVars, vocab, questions, nrows, sessions, applied, quiz>>

(* A call of generate that reads a member the enum does not have. *)
GenerateRaises(call) ==
    /\ reqs.pc = "call"
    /\ response' = Raised(call)
    /\ reqs' = [reqs EXCEPT !.pc = "done"]
    /\ UNCHANGED <<now, srsVars, vocab, questions, nrows, sessions, applied, quiz>>

MeaningGenerate ==
    Generate("MeaningQuestionStrategy", {MeaningQuestionStrategy(reqs.vocabulary)})

MCQGenerate ==
    Generate("MCQStrategy", MCQStrategy(reqs.vocabulary, reqs.distractors))

FillBlankGenerate ==
    Generate("FillBlankStrategy", FillBlankStrategy(reqs.vocabulary, reqs.distractors))

SynonymAntonymGenerate ==
    IF IsMember("SYNONYM_ANTONYM_MCQ")
    THEN Generate("SynonymAntonymStrategy",
                  SynonymAntonymStrategy(reqs.vocabulary, reqs.distractors))
    ELSE GenerateRaises("SynonymAntonymStrategy")

DefinitionMCQGenerate ==
    IF IsMember("DEFINITION_MCQ")
    THEN Generate("DefinitionMCQStrategy",
                  DefinitionMCQStrategy(reqs.vocabulary, reqs.distractors))
    ELSE GenerateRaises("DefinitionMCQStrategy")

(* UsageContextStrategy.generate when its padding loop ends. *)
UsageContextGenerate ==
    /\ UsageOptions(reqs.vocabulary, reqs.distractors) # <<>>
    /\ Generate("UsageContextStrategy",
                UsageContextStrategy(reqs.vocabulary, reqs.distractors))

(* UsageContextStrategy.generate when it does not: the call stays in the   *)
(* loop and hands nothing back.                                            *)
UsageContextPads ==
    /\ reqs.pc = "call"
    /\ UsageOptions(reqs.vocabulary, reqs.distractors) = <<>>
    /\ reqs' = [reqs EXCEPT !.pc = "padding"]
    /\ UNCHANGED <<now, srsVars, vocab, questions, nrows, sessions, applied, quiz, response>>

StrategyNext ==
    \/ MeaningGenerate
    \/ MCQGenerate
    \/ FillBlankGenerate
    \/ SynonymAntonymGenerate
    \/ DefinitionMCQGenerate
    \/ UsageContextGenerate
    \/ UsageContextPads

SpecStrategy == StrategyInit /\ [][StrategyNext]_vars

----------------------------------------------------------------------------
(* create_session requests that overlap.  Each request has its own         *)
(* database session: it inserts its ReviewSession (flush), selects the     *)
(* unassigned rows of its vocabularies and marks its copies, and writes    *)
(* everything at its commit.  Nothing locks the rows it selected: the      *)
(* UPDATE of the commit names a row by its id alone.                       *)

CreateAt(r, pc) == r \in DOMAIN reqs /\ reqs[r].pc = pc

(* The id the flush of step 2 gets for the ReviewSession: the next value   *)
(* of the sequence, one per request that got this far.                     *)
NextSessionId == Cardinality(DOMAIN reqs) + 1

(* The questions a request generates itself: count - len(pool_questions)   *)
(* for each of its vocabularies.                                           *)
RECURSIVE Remaining(_, _, _)
Remaining(vs, count, pick) ==
    IF vs = {} THEN 0
    ELSE LET v == CHOOSE x \in vs : TRUE
         IN  (count - Cardinality(pick[v])) + Remaining(vs \ {v}, count, pick)

(* The rows the requests in flight will insert at their commits. *)
RECURSIVE Uncommitted(_)
Uncommitted(rs) ==
    IF rs = {} THEN 0
    ELSE LET r == CHOOSE x \in rs : TRUE
         IN  (IF reqs[r].pc = "commit"
              THEN Remaining(reqs[r].vocabularies, reqs[r].count, reqs[r].pick)
              ELSE 0) + Uncommitted(rs \ {r})

CreateRequest(pc, user_id, session_id, vocabularies, count, pick) ==
    [pc           |-> pc,
     user_id      |-> user_id,
     session_id   |-> session_id,
     vocabularies |-> vocabularies,
     count        |-> count,
     pick         |-> pick]

CreateStarts(r, request) ==
    reqs' = [q \in DOMAIN reqs \cup {r} |-> IF q = r THEN request ELSE reqs[q]]

(* create_session when no vocabulary is selected: the empty session is     *)
(* committed at once.                                                      *)
CreateEmpty(r, user_id, mode, max_vocabularies) ==
    /\ r \notin DOMAIN reqs
    /\ Selections(Candidates(user_id, mode), max_vocabularies) = {{}}
    /\ sessions' = [s \in DOMAIN sessions \cup {NextSessionId} |->
                       IF s = NextSessionId THEN EmptySession(user_id) ELSE sessions[s]]
    /\ CreateStarts(r, CreateRequest("done", user_id, NextSessionId, {}, 0, <<>>))
    /\ response' = Returned("create_session", NextSessionId)
    /\ UNCHANGED <<now, vocab, questions, nrows, applied, quiz>>
    /\ UNCHANGED srsVars

(* create_session steps 1 to 3: the vocabularies, the flush that gives the *)
(* session its id, and for each vocabulary the SELECT of its unassigned    *)
(* rows; the rows are marked on the copies of the request.                 *)
CreateSelect(r, user_id, mode, max_vocabularies, questions_per_vocab) ==
    /\ r \notin DOMAIN reqs
    /\ \E vocabularies \in Selections(Candidates(user_id, mode), max_vocabularies) :
          /\ vocabularies # {}
          /\ \E pick \in PickFunctions(vocabularies, questions_per_vocab) :
                /\ nrows + Uncommitted(DOMAIN reqs)
                      + Remaining(vocabularies, questions_per_vocab, pick) <= MaxRows
                /\ CreateStarts(r, CreateRequest("commit", user_id, NextSessionId,
                                                 vocabularies, questions_per_vocab, pick))
    /\ UNCHANGED <<now, vocab, questions, nrows, sessions, applied, quiz, response>>
    /\ UNCHANGED srsVars

(* create_session steps 5 and 6: the commit writes session_id and is_used  *)
(* of the rows the request marked, whatever they hold by now, and inserts  *)
(* the questions it generated and the session.                             *)
CreateCommit(r) ==
    /\ CreateAt(r, "commit")
    /\ LET q == GetQuestions(SeqOf(reqs[r].vocabularies), questions, nrows,
                             reqs[r].session_id, reqs[r].count, reqs[r].pick)
       IN  /\ questions' = q.rows
           /\ nrows' = q.created
           /\ applied' = [k \in 1..q.created |->
                             IF k \in DOMAIN applied THEN applied[k] ELSE 0]
    /\ sessions' = [s \in DOMAIN sessions \cup {reqs[r].session_id} |->
                       IF s = reqs[r].session_id
                       THEN NewSession(reqs[r].user_id,
                               Cardinality(reqs[r].vocabularies) * reqs[r].count)
                       ELSE sessions[s]]
    /\ reqs' = [reqs EXCEPT ![r].pc = "done"]
    /\ response' = Returned("create_session", reqs[r].session_id)
    /\ UNCHANGED <<now, vocab, quiz>>
    /\ UNCHANGED srsVars

(* Questions are pre-generated one at a time, and two requests create      *)
(* sessions.                                                               *)
CreateNext ==
    \/ /\ nrows + Uncommitted(DOMAIN reqs) < MaxRows
       /\ \E v \in Vocabs : PreGenerate(v, 1)
    \/ \E r \in Requests, u \in Users, m \in Modes, mv \in 1..NumVocab :
          CreateEmpty(r, u, m, mv)
    \/ \E r \in Requests, u \in Users, m \in Modes, mv \in 1..NumVocab,
          c \in 1..MaxPerVocab :
          CreateSelect(r, u, m, mv, c)
    \/ \E r \in Requests : CreateCommit(r)

SpecCreate == Init /\ [][CreateNext]_vars

---------------------------------------------------------------------------
(* Claims about the scheduler, checked under SpecSRS.                      *)

Called == args # <<>>
Ret == new_state[1]
InRange(ef) == MIN_EASINESS_FACTOR <= ef /\ ef <= MAX_EASINESS_FACTOR

(* C1: every SRSState reachable from a new item by update_after_review,    *)
(* with any quality and any elapsed time, has 1.3 <= easiness_factor       *)
(* <= 2.5, and a state built with an easiness factor outside that range    *)
(* holds the nearest bound of the range instead.                           *)
C1_EasinessBounds ==
    /\ InRange(cur.easiness_factor)
    /\ Called => InRange(Ret.easiness_factor)
    /\ ~Called =>
          cur.easiness_factor = IF ctor < MIN_EASINESS_FACTOR THEN MIN_EASINESS_FACTOR
                                ELSE IF ctor > MAX_EASINESS_FACTOR THEN MAX_EASINESS_FACTOR
                                ELSE ctor

(* C1 witness: a review with AGAIN of a state already at 1.3 that was      *)
(* reached from a constructor call given 3.0.                              *)
C1_Witness ==
    /\ Called
    /\ ctor > MAX_EASINESS_FACTOR
    /\ orig.easiness_factor = MIN_EASINESS_FACTOR
    /\ args[1].review_quality = AGAIN
    /\ Ret.easiness_factor = MIN_EASINESS_FACTOR

(* C2: a transition with quality AGAIN, from any state and for any elapsed *)
(* time, yields repetitions 0, interval 0 and a next review date equal to  *)
(* the review time.                                                        *)
C2_AgainResets ==
    (Called /\ args[1].review_quality = AGAIN) =>
        /\ Ret.repetitions = 0
        /\ Ret.interval = 0
        /\ Ret.next_review_date = Ret.last_review_date
        /\ args[1].review_time # NoneT => Ret.next_review_date = args[1].review_time

(* C2 witness: AGAIN on a state with repetitions 3 and interval 30, slow   *)
(* answer, review time given.                                              *)
C2_Witness ==
    /\ Called
    /\ args[1].review_quality = AGAIN
    /\ args[1].time_spent > 15000
    /\ args[1].review_time # NoneT
    /\ orig.repetitions = 3
    /\ orig.interval = 30
    /\ Ret.repetitions = 0

(* C3: after a transition whose adjusted quality is AGAIN or HARD (GOOD    *)
(* demoted to HARD by a slow answer included) repetitions is 0; after one  *)
(* whose adjusted quality is GOOD or EASY it is the previous count plus 1. *)
C3_Repetitions ==
    Called =>
        LET adj == AdjustedQuality(args[1].review_quality, args[1].time_spent)
        IN  /\ adj \in {AGAIN, HARD} => Ret.repetitions = 0
            /\ adj \in {GOOD, EASY} => Ret.repetitions = orig.repetitions + 1

(* C3 witness: GOOD given with a slow answer on a state with repetitions   *)
(* above 0 resets them.                                                    *)
C3_Witness ==
    /\ Called
    /\ args[1].review_quality = GOOD
    /\ args[1].time_spent > 15000
    /\ orig.repetitions > 0
    /\ Ret.repetitions = 0

(* When the speed adjustment turns EASY and GOOD into the same quality the *)
(* two calls run the same float computation on the same easiness factor,   *)
(* so a tie is rounded the same way in both.                               *)
SameComputation(ts, de, dg) ==
    AdjustedQuality(EASY, ts) = AdjustedQuality(GOOD, ts) => de = dg

(* C7: from the same starting state, with the same review time and elapsed *)
(* time, EASY yields an interval and an easiness factor at least as large  *)
(* as GOOD does.                                                           *)
C7_EasyAtLeastGood ==
    \A t \in ReviewTimes, ts \in TimeSpent :
        \A de \in Drifts(orig, EASY, ts), dg \in Drifts(orig, GOOD, ts) :
            LET e == update_after_review(orig, EASY, t, ts, now, de).ret
                g == update_after_review(orig, GOOD, t, ts, now, dg).ret
            IN  SameComputation(ts, de, dg) =>
                    /\ e.interval >= g.interval
                    /\ e.easiness_factor >= g.easiness_factor

(* C7 witness: EASY was applied to a state with two or more repetitions    *)
(* and gave a strictly longer interval and a higher easiness factor than   *)
(* GOOD gives there.                                                       *)
C7_Witness ==
    /\ Called
    /\ args[1].review_quality = EASY
    /\ args[1].time_spent = 0
    /\ orig.repetitions >= 2
    /\ LET g == update_after_review(orig, GOOD, args[1].review_time, 0, now, 0).ret
       IN  /\ Ret.interval > g.interval
           /\ Ret.easiness_factor > g.easiness_factor

C9_PassingRun ==
    (Called /\ passes >= 1) =>
        /\ Ret.repetitions = passes
        /\ passes = 1 => Ret.interval = 1
        /\ passes = 2 => Ret.interval = 6
        /\ passes >= 3 => Ret.interval > orig.interval

(* C9 witness: the third pass in a row from a new item, by EASY, exceeds   *)
(* the interval of 6.                                                      *)
C9_Witness ==
    /\ Called
    /\ passes = 3
    /\ ctor = DEFAULT_EASINESS_FACTOR
    /\ args[1].review_quality = EASY
    /\ orig.interval = 6
    /\ Ret.interval > 6


---------------------------------------------------------------------------
(* Claims about sessions, checked under Spec.                              *)

Completed(session_id) ==
    /\ session_id \in 1..Len(sessions)
    /\ sessions[session_id].status = "completed"

(* Claim C4: a second complete_session on a completed session applies no   *)
(* scheduler transition: the transition of an answered question is applied *)
(* to its vocabulary at most once.                                         *)
C4_AppliedAtMostOnce ==
    \A k \in DOMAIN applied : applied[k] <= 1

(* Claim C6: once a session is completed, no step changes or deletes one   *)
(* of its questions.                                                       *)
C6_CompletedQuestionsFrozen ==
    [][\A k \in DOMAIN questions :
          Completed(questions[k].session_id)
              => (k \in DOMAIN questions' /\ questions'[k] = questions[k])]_vars

(* Claim C10: create_session for a user without candidate vocabularies     *)
(* adds a session with status completed and total_questions 0, adds no     *)
(* question to it, and changes no vocabulary and no question.              *)
C10_EmptySession ==
    [][\A u \in Users, m \in Modes, mv \in 1..NumVocab, c \in 1..MaxPerVocab :
          (Candidates(u, m) = {} /\ CreateSession(u, m, mv, c))
              => LET sid == Len(sessions) + 1
                 IN  /\ Len(sessions') = sid
                     /\ sessions'[sid].user_id = u
                     /\ sessions'[sid].status = "completed"
                     /\ sessions'[sid].total_questions = 0
                     /\ sessions'[sid].correct_count = 0
                     /\ {k \in DOMAIN questions' : questions'[k].session_id = sid} = {}
                     /\ vocab' = vocab
                     /\ questions' = questions]_vars

(* An empty session exists for the user without vocabularies and for the   *)
(* user whose vocabularies are all scheduled for later, next to a session  *)
(* with questions.                                                         *)
C10_Witness ==
    /\ Len(sessions) = 2
    /\ sessions[1].total_questions > 0
    /\ sessions[2].user_id = 1
    /\ sessions[2].status = "completed"
    /\ sessions[2].total_questions = 0
    /\ SessionQuestions(2) = {}
    /\ Candidates(1, "due") = {}

---------------------------------------------------------------------------
(* Claims about the quiz pool, checked under SpecPool.                     *)

(* Claim C5: when generate_quiz_session is done with a vocabulary, the     *)
(* number of persisted questions of that vocabulary is at most             *)
(* MAX_POOL_SIZE.                                                          *)
C5_PoolBound ==
    [][(quiz # NoQuiz /\ (quiz' = NoQuiz \/ quiz'.todo = Tail(quiz.todo)))
          => Cardinality({k \in DOMAIN questions' :
                             questions'[k].vocabulary_id = Head(quiz.todo)})
                 <= MAX_POOL_SIZE]_vars

---------------------------------------------------------------------------
(* Further claims about sessions, checked under Spec.                      *)

(* The scheduler columns of a vocabulary. *)
SchedulerState(row) ==
    <<row.easiness_factor, row.interval, row.repetitions, row.next_review_date>>

(* The step records an answer on a question. *)
AnswerRecorded ==
    \E k \in DOMAIN questions :
        /\ k \in DOMAIN questions'
        /\ <<questions'[k].user_answer, questions'[k].is_correct,
             questions'[k].time_spent_ms, questions'[k].answer_change_count>>
           # <<questions[k].user_answer, questions[k].is_correct,
               questions[k].time_spent_ms, questions[k].answer_change_count>>

(* Claim C11: a step that records an answer leaves the scheduler columns   *)
(* of every vocabulary unchanged, and a step that changes a scheduler      *)
(* column is a complete_session step.                                      *)
C11_SubmitLeavesScheduler ==
    [][/\ AnswerRecorded
            => \A v \in DOMAIN vocab : SchedulerState(vocab'[v]) = SchedulerState(vocab[v])
       /\ (\E v \in DOMAIN vocab : SchedulerState(vocab'[v]) # SchedulerState(vocab[v]))
            => \E sid \in 1..Len(sessions) : CompleteSession(sid)]_vars

(* A wrong answer and a right answer are recorded in a session that is not *)
(* completed, and the vocabularies are as they were created.               *)
C11_Witness ==
    /\ \E k \in DOMAIN questions :
          questions[k].is_correct = "True" /\ questions[k].time_spent_ms = 3000
    /\ \E k \in DOMAIN questions : questions[k].is_correct = "False"
    /\ \A k \in DOMAIN applied : applied[k] = 0
    /\ \A v \in DOMAIN vocab : vocab[v] = NewVocabulary(0)

---------------------------------------------------------------------------
(* Claims about the derived quality, checked under SpecQuality.            *)

(* The quality the claim states for an answer. *)
StatedQuality(is_correct, time_spent_ms) ==
    IF is_correct # "True" THEN AGAIN
    ELSE IF time_spent_ms < 5000 THEN EASY
    ELSE IF time_spent_ms > 15000 THEN HARD
    ELSE GOOD

(* The scheduler columns after one transition of the given quality. *)
AfterTransition(row, quality, time_spent_ms, clock, drift) ==
    SchedulerState(
        update_after_review(
            SRSState(row.easiness_factor, row.interval, row.repetitions,
                     row.next_review_date, NoneT, clock),
            quality, NoneT, time_spent_ms, clock, drift).ret)

(* Claim C12: complete_session on a session with one answered question     *)
(* moves the question's vocabulary by the transition of quality AGAIN for  *)
(* a wrong answer, EASY for a right one in less than 5 s, HARD for a right *)
(* one in more than 15 s, and GOOD for a right one in 5 s to 15 s.         *)
C12_DerivedQuality ==
    [][\A sid \in 1..Len(sessions) : \A k \in Answered(sid) :
          (CompleteSession(sid) /\ Answered(sid) = {k})
              => LET q == questions[k]
                     v == q.vocabulary_id
                 IN  \E drift \in {-1, 0, 1} :
                        SchedulerState(vocab'[v]) =
                            AfterTransition(vocab[v],
                                            StatedQuality(q.is_correct, q.time_spent_ms),
                                            q.time_spent_ms, now, drift)]_vars

(* Transitions were applied for a right answer in exactly 15 s and for a   *)
(* wrong answer in 3 s.                                                    *)
C12_Witness ==
    /\ \E k \in DOMAIN questions :
          /\ applied[k] = 1
          /\ questions[k].is_correct = "True"
          /\ questions[k].time_spent_ms = 15000
          /\ sessions[questions[k].session_id].status = "completed"
    /\ \E k \in DOMAIN questions :
          /\ applied[k] = 1
          /\ questions[k].is_correct = "False"
          /\ questions[k].time_spent_ms = 3000
          /\ sessions[questions[k].session_id].status = "completed"

----------------------------------------------------------------------------
(* Claims about failures of question generation.                           *)

(* A create_session call during which the generation of one vocabulary's  *)
(* questions raises.                                                       *)
GenerationFailed ==
    \E u \in Users, m \in Modes, mv \in 1..NumVocab, c \in 1..MaxPerVocab :
       CreateSessionFails(u, m, mv, c)

(* C13: when question generation fails for one vocabulary during          *)
(* create_session, the vocabulary is skipped and the session is still     *)
(* created: the call returns a new session and raises nothing.            *)
C13_FailureSkipsItem ==
    [][GenerationFailed =>
          /\ Len(sessions') = Len(sessions) + 1
          /\ ~response'.error]_vars

----------------------------------------------------------------------------
(* Claims about the quiz pool, checked under SpecPool.                     *)

(* The vocabularies of a list. *)
Range(s) == {s[i] : i \in DOMAIN s}

(* C14: when the generation of a question fails for a vocabulary of       *)
(* generate_quiz_session, no new question row is persisted, the vocabulary *)
(* is left out of the returned list, and the request goes on with the      *)
(* vocabularies that remain.                                               *)
C14_FailedGenerationSkipsItem ==
    [][AcquireFailed =>
          /\ DOMAIN questions' \subseteq DOMAIN questions
          /\ QuizVocab \notin Range(quiz.out)
          /\ IF Tail(quiz.todo) = <<>>
             THEN response' = Returned("generate_quiz_session", quiz.out)
             ELSE /\ quiz'.todo = Tail(quiz.todo)
                  /\ quiz'.pc = "check"
                  /\ quiz'.out = quiz.out]_vars

(* The first of two vocabularies failed, and the request is at the second. *)
C14_Witness ==
    /\ quiz # NoQuiz
    /\ Len(quiz.quiz_vocabs) = 2
    /\ quiz.todo = Tail(quiz.quiz_vocabs)
    /\ quiz.out = <<>>
    /\ \A k \in DOMAIN questions : questions[k].question_data # "ai"

(* The cached questions of v that have been used fewer than three times. *)
BelowThreshold(v) ==
    {k \in DOMAIN questions :
        /\ questions[k].vocabulary_id = v
        /\ questions[k].question_type = "multiple_choice"
        /\ questions[k].usage_count < 3}

(* The step in which the request decides what to do for its vocabulary. *)
AcquireDecides == QuizAt("check") /\ quiz' # quiz

(* The vocabulary's question has been appended to the request's list. *)
HandedOut ==
    IF quiz' = NoQuiz
    THEN response' = Returned("generate_quiz_session", quiz.out \o <<QuizVocab>>)
    ELSE /\ quiz'.pc = "check"
         /\ quiz'.out = quiz.out \o <<QuizVocab>>

Deleted == DOMAIN questions \ DOMAIN questions'

(* The cached questions of v, and whether each has reached the threshold. *)
CachedFor(v) ==
    {k \in DOMAIN questions :
        /\ questions[k].vocabulary_id = v
        /\ questions[k].question_type = "multiple_choice"}

AllExhausted(v) ==
    /\ CachedFor(v) # {}
    /\ \A k \in CachedFor(v) : questions[k].usage_count >= 3

(* C16: when every cached question of the vocabulary is exhausted and     *)
(* there are MAX_POOL_SIZE (5) of them or more, exactly one is deleted,    *)
(* the one created first, and this happens before the new question is     *)
(* added; every other step of a request deletes nothing.                   *)
C16_EvictsOldestOnly ==
    [][(quiz # NoQuiz /\ quiz' # quiz) =>
          IF /\ quiz.pc = "check"
             /\ AllExhausted(QuizVocab)
             /\ Cardinality(CachedFor(QuizVocab)) >= 5
          THEN /\ \E k \in CachedFor(QuizVocab) :
                     /\ \A j \in CachedFor(QuizVocab) : k <= j
                     /\ Deleted = {k}
               /\ DOMAIN questions' \subseteq DOMAIN questions
               /\ quiz' # NoQuiz /\ quiz'.pc = "generate"
          ELSE Deleted = {}]_vars

(* A full, exhausted pool has lost its first question, and the request is  *)
(* about to generate.                                                      *)
C16_Witness ==
    /\ QuizAt("generate")
    /\ Cardinality(CachedFor(QuizVocab)) = MAX_POOL_SIZE - 1
    /\ \E k \in 1..nrows :
          /\ k \notin DOMAIN questions
          /\ \A j \in CachedFor(QuizVocab) : k < j

(* The rows a step adds. *)
Added == DOMAIN questions' \ DOMAIN questions

(* C17: a question made by fresh generation is persisted with             *)
(* usage_count = 1 before it is handed out: the step that hands out a      *)
(* generated question has saved its row, and every row a request saves     *)
(* has usage_count 1.                                                       *)
C17_FreshStartsAtOne ==
    [][(quiz # NoQuiz /\ quiz' # quiz) =>
          /\ \A k \in Added : questions'[k].usage_count = 1
          /\ (quiz.pc = "generate" /\ HandedOut) =>
                \E k \in Added :
                   /\ questions'[k].vocabulary_id = QuizVocab
                   /\ questions'[k].question_type = "multiple_choice"]_vars

(* The only row ever saved is the generated question of the vocabulary the *)
(* request has handed out.                                                  *)
C17_Witness ==
    /\ quiz # NoQuiz
    /\ nrows = 1
    /\ 1 \in DOMAIN questions
    /\ questions[1].usage_count = 1
    /\ quiz.out = <<questions[1].vocabulary_id>>

----------------------------------------------------------------------------
(* Claims about the status of a session, checked under Spec.               *)

(* C18: the status of a session only moves from in_progress to completed:  *)
(* a completed session stays completed, no other status exists, and a      *)
(* session in progress stays so on every step that is not its              *)
(* complete_session.                                                        *)
C18_StatusOnlyForward ==
    [][/\ \A sid \in DOMAIN sessions' :
             sessions'[sid].status \in {"in_progress", "completed"}
       /\ \A sid \in DOMAIN sessions :
             /\ sid \in DOMAIN sessions'
             /\ sessions[sid].status = "completed"
                   => sessions'[sid].status = "completed"
             /\ sessions'[sid].status # sessions[sid].status
                   => /\ sessions[sid].status = "in_progress"
                      /\ sessions'[sid].status = "completed"
                      /\ CompleteSession(sid)]_vars

(* One session has been completed and the transition of its answered      *)
(* question applied, while another answered session is still in progress.  *)
C18_Witness ==
    \E s1, s2 \in DOMAIN sessions :
       /\ sessions[s1].status = "completed"
       /\ \E k \in SessionQuestions(s1) : applied[k] = 1
       /\ sessions[s2].status = "in_progress"
       /\ \E k \in SessionQuestions(s2) : questions[k].is_correct # NoneB

----------------------------------------------------------------------------
(* Claims about overlapping requests.                                      *)

(* The vocabulary rows after request a and then request b have each run    *)
(* alone on rows: every rounding of either is allowed.                     *)
SerialOutcomes(rows, a, b) ==
    {UpdateAll(UpdateAll(rows, reqs[a].order, reqs[a].clock, da),
               reqs[b].order, reqs[b].clock, db) :
        da \in [Range(reqs[a].order) -> {-1, 0, 1}],
        db \in [Range(reqs[b].order) -> {-1, 0, 1}]}

(* Both requests have committed. *)
BothDone(a, b) ==
    /\ a \in DOMAIN reqs /\ b \in DOMAIN reqs /\ a # b
    /\ reqs[a].pc = "done" /\ reqs[b].pc = "done"

AcquireAlone(pool, v) ==
    IF read_candidates(pool) # {}
    THEN {[pool EXCEPT ![k].usage_count = pool[k].usage_count + 1] :
             k \in read_candidates(pool)}
    ELSE LET remaining == IF DOMAIN pool = {} THEN {} ELSE read_remaining_questions(pool)
             committed == {[k \in remaining |->
                              IF k \in S THEN [pool[k] EXCEPT !.usage_count = 0]
                              ELSE pool[k]] : S \in recycled_qs(remaining)}
             new_id(p) == IF DOMAIN p = {} THEN 1
                          ELSE 1 + CHOOSE k \in DOMAIN p : \A j \in DOMAIN p : k >= j
             saved(p)  == [k \in DOMAIN p \cup {new_id(p)} |->
                              IF k \in DOMAIN p THEN p[k]
                              ELSE GeneratedQuestion(v, "multiple_choice", "ai", 0, FALSE, 1)]
         IN  committed \cup {saved(p) : p \in committed}

(* A pool as the rows it keeps of the pool it came from, and how many      *)
(* new rows it has at each usage_count.                                     *)
Shape(pool, from) ==
    [kept  |-> [k \in DOMAIN pool \cap DOMAIN from |-> pool[k]],
     fresh |-> [u \in 0..USAGE_THRESHOLD |->
                  Cardinality({k \in DOMAIN pool \ DOMAIN from : pool[k].usage_count = u})]]

(* The shapes two acquire calls leave when one runs after the other. *)
SerialPools(from, v) ==
    {Shape(p2, from) : p2 \in UNION {AcquireAlone(p1, v) : p1 \in AcquireAlone(from, v)}}

AcquireEnded(r) == r \in DOMAIN reqs /\ reqs[r].pc \in {"done", "failed"}

----------------------------------------------------------------------------
(* Claims about the questions of a session, checked under SpecAssign.      *)

(* C21: once a question has been given to a session by create_session its *)
(* session_id never changes: it does not go back to the pool and no later  *)
(* session takes it, whether its session is completed or not.              *)
C21_AssignmentIsFinal ==
    [][\A k \in DOMAIN questions :
          (questions[k].session_id # 0 /\ k \in DOMAIN questions')
             => questions'[k].session_id = questions[k].session_id]_vars

(* Two pre-generated questions of one vocabulary: the first session took   *)
(* the second row, the later session the first row, and the first session  *)
(* has not been completed.                                                  *)
C21_Witness ==
    /\ Len(sessions) = 2
    /\ DOMAIN questions = {1, 2}
    /\ questions[1].vocabulary_id = questions[2].vocabulary_id
    /\ questions[2].session_id = 1
    /\ questions[1].session_id = 2
    /\ sessions[1].status = "in_progress"

----------------------------------------------------------------------------
(* Claims about the question strategies, checked under SpecStrategy. *)

MCQCalls ==
    {"MCQStrategy", "SynonymAntonymStrategy", "UsageContextStrategy",
     "DefinitionMCQStrategy"}

(* A call that ended by returning question data. *)
ReturnedData == response # NoResponse /\ ~response.error

FourWithCorrect(question_data) ==
    /\ Len(question_data.options) = 4
    /\ In(question_data.correct_answer, question_data.options)

Distinct(list) == \A i, j \in DOMAIN list : i # j => list[i] # list[j]

(* C23: a multiple-choice question generated for an item with exactly one  *)
(* available distractor has four options that are pairwise distinct.       *)
C23_OneDistractorDistinctOptions ==
    (/\ ReturnedData
     /\ response.call \in {"MCQStrategy", "UsageContextStrategy"}
     /\ response.value.question_type = QuestionType.MULTIPLE_CHOICE
     /\ Len(reqs.distractors) = 1
     /\ reqs.distractors[1].id # reqs.vocabulary.id)
       => /\ Len(response.value.options) = 4
          /\ Distinct(response.value.options)

NoUsableDefinition(vocabulary) ==
    \/ vocabulary.meanings = <<>>
    \/ ~Truthy(vocabulary.meanings[1])
    \/ Blank(vocabulary.meanings[1])

(* C25: the prompt of a definition-recall question is never empty or       *)
(* blank: without a usable first definition it is the fixed fallback text  *)
(* followed by the word; the correct answer is the word.                   *)
C25_PromptNeverBlank ==
    (/\ ReturnedData
     /\ response.value.question_type = QuestionType.MEANING_INPUT)
       => /\ response.value.question_text # NoneStr
          /\ ~Blank(response.value.question_text)
          /\ response.value.correct_answer = reqs.vocabulary.word
          /\ NoUsableDefinition(reqs.vocabulary)
                => response.value.question_text
                      = <<"Tu vung: ">> \o reqs.vocabulary.word
          /\ ~NoUsableDefinition(reqs.vocabulary)
                => response.value.question_text = reqs.vocabulary.meanings[1]

C25_Witness ==
    /\ ReturnedData
    /\ response.call = "MeaningQuestionStrategy"
    /\ reqs.vocabulary.meanings = << <<" ">> >>
    /\ response.value.question_text = <<"Tu vung: ">> \o reqs.vocabulary.word

----------------------------------------------------------------------------
(* Claims about the speed adjustment, checked under SpecElapsed. *)

(* The arguments of the last call of update_after_review. *)
LastCall == args[1]

(* C26: the speed adjustment changes the quality only when it is GOOD or   *)
(* EASY and the time spent is above 0: under 5 seconds GOOD becomes EASY,  *)
(* over 15 seconds EASY becomes GOOD and GOOD becomes HARD; AGAIN and HARD *)
(* are never changed, and 0, exactly 5 and exactly 15 seconds change       *)
(* nothing.  ClaimedQuality is the adjustment as the claim words it; the    *)
(* state the call returns is the one the scheduler computes for it.        *)
ClaimedQuality(q, ms) ==
    IF q = GOOD /\ ms > 0 /\ ms < 5000 THEN EASY
    ELSE IF q = EASY /\ ms > 15000 THEN GOOD
    ELSE IF q = GOOD /\ ms > 15000 THEN HARD
    ELSE q

C26_SpeedAdjustment ==
    args # <<>> =>
       LET adj == ClaimedQuality(LastCall.review_quality, LastCall.time_spent)
           ef == calculate_new_easiness_factor(orig.easiness_factor, adj)
           reps == new_repetitions(adj, orig.repetitions)
       IN  /\ new_state[1].easiness_factor = ef
           /\ new_state[1].repetitions = reps
           /\ new_state[1].interval =
                 calculate_new_interval(orig.interval, reps, ef, adj, LastCall.drift)

(* A GOOD answer after exactly 15 seconds stays GOOD: the repetitions go   *)
(* up and the factor stays.                                                *)
C26_Witness ==
    /\ args # <<>>
    /\ LastCall.review_quality = GOOD
    /\ LastCall.time_spent = 15000
    /\ new_state[1].repetitions = orig.repetitions + 1
    /\ new_state[1].easiness_factor = orig.easiness_factor

(* C27: a passing review that brings the repetitions to three or more sets *)
(* the interval to max(1, round(old interval * new factor * m)), m = 1.3   *)
(* for an adjusted EASY and 1.0 for an adjusted GOOD, the new factor being *)
(* the one this review leaves after update and clamp.  Factors are in      *)
(* hundredths and multipliers in tenths, so the product is in thousandths; *)
(* round yields an integer at most half a day away from it.                *)
C27_IntervalFromNewFactor ==
    (args # <<>> /\ new_state[1].repetitions >= 3) =>
       LET adj == AdjustedQuality(LastCall.review_quality, LastCall.time_spent)
           m == IF adj = EASY THEN 13 ELSE 10
           product == orig.interval * new_state[1].easiness_factor * m
           interval == new_state[1].interval
       IN  /\ adj \in {GOOD, EASY}
           /\ new_state[1].easiness_factor =
                 Min(250, Max(130, orig.easiness_factor + (IF adj = EASY THEN 15 ELSE 0)))
           /\ \/ interval = 1 /\ product < 500
              \/ /\ interval >= 1
                 /\ 1000 * interval - product <= 500
                 /\ product - 1000 * interval <= 500

(* An EASY review of an item at factor 2.05 and 30 days: the factor        *)
(* becomes 2.20 and the interval round(30 * 2.20 * 1.3) = 86, not the 80   *)
(* the old factor would give.                                              *)
C27_Witness ==
    /\ args # <<>>
    /\ orig.easiness_factor = 205
    /\ orig.interval = 30
    /\ orig.repetitions = 3
    /\ LastCall.review_quality = EASY
    /\ LastCall.time_spent = 10000
    /\ new_state[1].easiness_factor = 220
    /\ new_state[1].interval = 86

----------------------------------------------------------------------------
(* Claims about the sessions, checked under Spec. *)

(* The vocabularies the session just created has questions of. *)
SelectedFor(session_id) ==
    {questions'[k].vocabulary_id :
        k \in {j \in DOMAIN questions' : questions'[j].session_id = session_id}}

(* C28: create_session in mode due selects only vocabularies of the user   *)
(* whose next review date is not after now, in mode new only ones with     *)
(* repetitions 0; the selected ones are the max earliest next review dates *)
(* among these candidates, and never more than max.                        *)
C28_SelectsEarliestCandidates ==
    [][\A u \in Users, m \in Modes, mv \in 1..NumVocab, c \in 1..MaxPerVocab :
          CreateSession(u, m, mv, c) =>
             LET S == SelectedFor(Len(sessions'))
                 eligible == {v \in DOMAIN vocab :
                                /\ Owner(v) = u
                                /\ m = "due" => vocab[v].next_review_date <= now
                                /\ m = "new" => vocab[v].repetitions = 0}
             IN  /\ S \subseteq eligible
                 /\ Cardinality(S) <= mv
                 /\ Cardinality(S) = Min(mv, Cardinality(eligible))
                 /\ \A a \in S, b \in eligible \ S :
                       vocab[a].next_review_date <= vocab[b].next_review_date]_vars

(* The second session, created when vocabulary 1 has been reviewed and is  *)
(* due again later than vocabulary 2: with room for one, it takes 2.       *)
C28_Witness ==
    /\ Len(sessions) = 2
    /\ response = Returned("create_session", 2)
    /\ vocab[1].next_review_date = 1
    /\ vocab[2].next_review_date = 0
    /\ now = 1
    /\ DOMAIN questions = {1, 2}
    /\ questions[1].session_id = 1 /\ questions[1].vocabulary_id = 1
    /\ questions[2].session_id = 2 /\ questions[2].vocabulary_id = 2

(* The scheduler columns after the transitions of the answered questions   *)
(* ks, one after the other.                                                *)
RECURSIVE Successive(_, _, _, _)
Successive(row, ks, clock, drifts) ==
    IF ks = <<>> THEN SchedulerState(row)
    ELSE LET q == questions[Head(ks)]
         IN  Successive(
                update_after_review(
                    SRSState(row.easiness_factor, row.interval, row.repetitions,
                             row.next_review_date, NoneT, clock),
                    StatedQuality(q.is_correct, q.time_spent_ms), NoneT,
                    q.time_spent_ms, clock, drifts[Head(ks)]).ret,
                Tail(ks), clock, drifts)

(* The answered questions of a session that belong to vocabulary v. *)
AnsweredOf(session_id, v) ==
    {k \in DOMAIN questions :
        /\ questions[k].session_id = session_id
        /\ questions[k].vocabulary_id = v
        /\ questions[k].is_correct # NoneB}

(* C29: complete_session applies exactly one transition for each answered  *)
(* question of the session, to that question's vocabulary, and none for an *)
(* unanswered one: a vocabulary with k answered questions in the session   *)
(* gets k successive transitions, one with none keeps its state.           *)
C29_OneTransitionPerAnswer ==
    [][\A sid \in 1..MaxSessions :
          CompleteSession(sid) =>
             /\ \A k \in DOMAIN questions :
                   applied'[k] - applied[k] =
                      IF questions[k].session_id = sid /\ questions[k].is_correct # NoneB
                      THEN 1 ELSE 0
             /\ \A v \in DOMAIN vocab :
                   /\ AnsweredOf(sid, v) = {} => vocab'[v] = vocab[v]
                   /\ \E order \in Orders(AnsweredOf(sid, v)) :
                      \E drifts \in [AnsweredOf(sid, v) -> {-1, 0, 1}] :
                         SchedulerState(vocab'[v]) =
                            Successive(vocab[v], order, now, drifts)]_vars

(* A session with two answered questions of vocabulary 1 is completed:     *)
(* vocabulary 1 has passed twice, vocabulary 2 is as it was created.       *)
C29_Witness ==
    /\ DOMAIN questions = {1, 2}
    /\ \A k \in {1, 2} :
          /\ questions[k].session_id = 1
          /\ questions[k].vocabulary_id = 1
          /\ questions[k].is_correct = "True"
          /\ applied[k] = 1
    /\ sessions[1].status = "completed"
    /\ vocab[1].repetitions = 2
    /\ vocab[1].interval = 6
    /\ vocab[2] = NewVocabulary(0)

(* C30: once submit_answer has recorded an answer on a question, a later   *)
(* submit_answer for the same question leaves its user_answer, is_correct, *)
(* time_spent_ms and answer_change_count as they are.                      *)
C30_RecordedAnswerIsFinal ==
    [][\A k \in DOMAIN questions :
          (questions[k].is_correct # NoneB /\ k \in DOMAIN questions')
             => /\ questions'[k].user_answer = questions[k].user_answer
                /\ questions'[k].is_correct = questions[k].is_correct
                /\ questions'[k].time_spent_ms = questions[k].time_spent_ms
                /\ questions'[k].answer_change_count
                      = questions[k].answer_change_count]_vars

----------------------------------------------------------------------------
(* Further claims about the quiz pool, checked under SpecPool. *)

(* The rows whose usage_count a step changes. *)
Recycled ==
    {k \in DOMAIN questions \cap DOMAIN questions' :
        questions'[k].usage_count # questions[k].usage_count}

(* C31: when every cached question of the vocabulary is exhausted, at most *)
(* two of the questions that remain after the eviction get usage_count 0,  *)
(* every other remaining question keeps its usage_count, and the evicted   *)
(* question (the first of a full pool) is not among the recycled ones.     *)
C31_RecyclesAtMostTwo ==
    [][(QuizAt("check") /\ quiz' # quiz /\ AllExhausted(QuizVocab)) =>
          /\ Cardinality(Recycled) <= 2
          /\ Recycled \subseteq CachedFor(QuizVocab) \ Deleted
          /\ \A k \in Recycled : questions'[k].usage_count = 0
          /\ \A k \in DOMAIN questions' \ Recycled : questions'[k] = questions[k]
          /\ Cardinality(CachedFor(QuizVocab)) >= 5
                => \A k \in Recycled : \E j \in CachedFor(QuizVocab) : j < k]_vars

(* A full, exhausted pool after the step: the first question is gone, two  *)
(* of the four that remain are back at 0 and two are still exhausted.      *)
C31_Witness ==
    /\ QuizAt("generate")
    /\ Cardinality(CachedFor(QuizVocab)) = MAX_POOL_SIZE - 1
    /\ Cardinality({k \in CachedFor(QuizVocab) : questions[k].usage_count = 0}) = 2
    /\ Cardinality({k \in CachedFor(QuizVocab) : questions[k].usage_count >= 3}) = 2

----------------------------------------------------------------------------
(* Further claims about the scheduler, checked under SpecElapsed. *)

(* C32: a review whose adjusted quality is HARD leaves interval 0 whatever *)
(* the state before: HARD resets the repetitions to 0 first, so the rule   *)
(* max(1, floor(old interval * 0.5)) is never applied.                     *)
C32_HardGivesZeroInterval ==
    (args # <<>>
       /\ AdjustedQuality(LastCall.review_quality, LastCall.time_spent) = HARD)
       => /\ new_state[1].repetitions = 0
          /\ new_state[1].interval = 0

(* An item at 30 days and three repetitions answered GOOD after 20 s: the  *)
(* quality becomes HARD and the interval 0, not 15.                        *)
C32_Witness ==
    /\ args # <<>>
    /\ orig.interval = 30
    /\ orig.repetitions = 3
    /\ LastCall.review_quality = GOOD
    /\ LastCall.time_spent = 20000
    /\ new_state[1].interval = 0

----------------------------------------------------------------------------
(* Further claims about the derived quality, checked under SpecQuality. *)

(* C33: in complete_session the speed adjustment of the scheduler never    *)
(* changes the quality _update_vocabulary_srs derives: for every answer    *)
(* the easiness factor, the repetitions and the interval are updated with  *)
(* the derived quality itself.                                             *)
C33_AdjustmentKeepsDerivedQuality ==
    [][\A sid \in 1..Len(sessions) : \A k \in Answered(sid) :
          (CompleteSession(sid) /\ Answered(sid) = {k})
              => LET q == questions[k]
                     v == q.vocabulary_id
                     derived == DerivedQuality(q)
                     ef == calculate_new_easiness_factor(vocab[v].easiness_factor, derived)
                     reps == new_repetitions(derived, vocab[v].repetitions)
                 IN  /\ AdjustedQuality(derived, q.time_spent_ms) = derived
                     /\ vocab'[v].easiness_factor = ef
                     /\ vocab'[v].repetitions = reps
                     /\ \E drift \in {-1, 0, 1} :
                           vocab'[v].interval =
                              calculate_new_interval(vocab[v].interval, reps, ef,
                                                     derived, drift)]_vars

(* Completed sessions with a right answer in 0 s (EASY, which a time of 0  *)
(* does not adjust) and with a right answer in 20 s (HARD, which is below  *)
(* the qualities the adjustment touches).                                  *)
C33_Witness ==
    /\ \E k \in DOMAIN questions :
          /\ applied[k] = 1
          /\ questions[k].is_correct = "True"
          /\ questions[k].time_spent_ms = 0
    /\ \E k \in DOMAIN questions :
          /\ applied[k] = 1
          /\ questions[k].is_correct = "True"
          /\ questions[k].time_spent_ms = 20000

----------------------------------------------------------------------------
(* Further claims about the quiz pool, checked under SpecPool. *)

(* C34: whatever requests have run since the pool was empty, every cached  *)
(* question of a vocabulary has a usage_count from 0 to USAGE_THRESHOLD.   *)
C34_UsageCountInRange ==
    \A v \in DOMAIN vocab : \A k \in CachedFor(v) :
       /\ questions[k].usage_count >= 0
       /\ questions[k].usage_count <= 3

(* A generated question, saved at 1, has been reused up to the threshold   *)
(* and is the only cached question of its vocabulary; no request runs.     *)
C34_Witness ==
    /\ quiz = NoQuiz
    /\ \E k \in DOMAIN questions :
          /\ questions[k].question_data = "ai"
          /\ questions[k].usage_count = USAGE_THRESHOLD
          /\ CachedFor(questions[k].vocabulary_id) = {k}

(* The reuses the cached questions of v still allow: each question can be  *)
(* handed out until its usage_count is at the threshold.                   *)
RECURSIVE ReusesLeftIn(_)
ReusesLeftIn(ks) ==
    IF ks = {} THEN 0
    ELSE LET k == CHOOSE x \in ks : TRUE
         IN  (3 - questions[k].usage_count) + ReusesLeftIn(ks \ {k})

ReusesLeft(v) == ReusesLeftIn(CachedFor(v))

(* The same count in the state a step leads to. *)
RECURSIVE ReusesLeftAfterIn(_)
ReusesLeftAfterIn(ks) ==
    IF ks = {} THEN 0
    ELSE LET k == CHOOSE x \in ks : TRUE
         IN  (3 - questions'[k].usage_count) + ReusesLeftAfterIn(ks \ {k})

(* C35: reuse from the pool cannot go on forever.  Each request that       *)
(* reuses a question of the vocabulary uses up one of the reuses its pool  *)
(* allows, at most three per cached question, and a request that finds     *)
(* none left goes on to generate; so if questions are reused again and     *)
(* again, a generation is triggered again and again.                       *)
C35_ReuseRunsOut ==
    /\ [][AcquireDecides =>
             IF ReusesLeft(QuizVocab) = 0
             THEN quiz' # NoQuiz /\ quiz'.pc = "generate"
             ELSE /\ ReusesLeft(QuizVocab) <= 3 * Cardinality(CachedFor(QuizVocab))
                  /\ HandedOut
                  /\ DOMAIN questions' = DOMAIN questions
                  /\ ReusesLeftAfterIn(CachedFor(QuizVocab))
                        = ReusesLeft(QuizVocab) - 1]_vars
    /\ []<><<AcquireReuse>>_vars => []<>QuizAt("generate")

(* The one cached question of a vocabulary was generated and then reused   *)
(* until nothing is left, and the next request has gone on to generate.    *)
C35_Witness ==
    /\ QuizAt("generate")
    /\ \E k \in DOMAIN questions :
          /\ questions[k].question_data = "ai"
          /\ questions[k].vocabulary_id = QuizVocab
          /\ questions[k].usage_count = 0
          /\ CachedFor(QuizVocab) = {k}

----------------------------------------------------------------------------
(* Claims about a failing generation, checked under SpecAcquire.            *)

(* The cached questions of a vocabulary as the database holds them. *)
PoolNow(v) == [k \in cached_questions(v) |-> questions[k]]

(* Request r is the only one that has run, and its generation has failed. *)
FailedAlone(r) == AcquireAt(r, "failed") /\ DOMAIN reqs = {r}

(* C36: when the generation of an acquire call fails, the pool of the      *)
(* vocabulary is as it was before the call: the same questions with the    *)
(* same usage_count, none deleted and none reset to 0.                     *)
C36_FailedGenerationLeavesPool ==
    \A r \in Requests :
       FailedAlone(r) => PoolNow(reqs[r].vocabulary_id) = reqs[r].cached_questions

----------------------------------------------------------------------------
(* Claims about the end of a strategy call, checked under SpecStrategy.     *)

(* C38: UsageContextStrategy.generate ends for every vocabulary and every  *)
(* list of distractors, also when the context sentence of the vocabulary   *)
(* or a sentence made from a distractor is one of the fake templates: no   *)
(* call is left in the loop that pads the options.                         *)
C38_UsageContextTerminates == reqs.pc # "padding"

----------------------------------------------------------------------------
(* Claims about overlapping create_session requests, checked under         *)
(* SpecCreate.                                                             *)

CreateDone(r) == CreateAt(r, "done")

(* The pre-generated rows a request took from the pool for its session. *)
Taken(r) == UNION {reqs[r].pick[v] : v \in reqs[r].vocabularies}

(* C37: no pre-generated question is given to two sessions, also when two  *)
(* create_session requests overlap between the select of the unassigned    *)
(* rows and the commit of their session_id; and every session created      *)
(* holds as many questions as its total_questions, the number of its       *)
(* vocabularies times questions_per_vocab.                                 *)
C37_NoQuestionInTwoSessions ==
    /\ \A a, b \in Requests :
          (a # b /\ CreateDone(a) /\ CreateDone(b)) => Taken(a) \cap Taken(b) = {}
    /\ \A r \in Requests :
          CreateDone(r) =>
             /\ sessions[reqs[r].session_id].total_questions
                   = Cardinality(reqs[r].vocabularies) * reqs[r].count
             /\ Cardinality(SessionQuestions(reqs[r].session_id))
                   = sessions[reqs[r].session_id].total_questions

=========================================================================
